---- MODULE Spec2Model ----
(***************************************************************************)
(* A model of img_block_viewer.py: the skeleton decomposition              *)
(* (SplitSWCTree), the transfer-function rescaling of volume properties    *)
(* (UpdatePropertyOTFScale / UpdatePropertyCTFScale, GetColorScale,        *)
(* SetColorScale, GUIControl.AddObjectProperty / ModifyObjectProperty /    *)
(* AddObjects / EasyObjectImporter), the configuration merge               *)
(* (MergeFullDict), the name allocation (GetNonconflitName), the point     *)
(* cloud and the ray picker (PointSetHolder, PointPicker), the object      *)
(* registry (AddObjects, AppendToScene, RemoveObjects), the timer-driven   *)
(* camera animation (timerHandler, execSmoothRotation), the mouse and      *)
(* modifier handling of MyInteractorStyle, and the cameras that follow a   *)
(* reference camera (CameraFollowCallbackFunction).                        *)
(*                                                                         *)
(* Several specifications share the module: SpecSWC runs SplitSWCTree on   *)
(* a bounded set of input trees, SpecMerge runs MergeFullDict on bounded   *)
(* configuration nodes, Spec runs the GUIControl property registry,        *)
(* SpecNames runs GetNonconflitName, SpecPick adds points and picks,       *)
(* SpecObjects runs the object registry with picks in between, SpecTimer   *)
(* runs animations on one interactor, SpecStyle runs the left-button and   *)
(* modifier handlers, SpecKeys presses '+' / '-' on a scene of volumes,    *)
(* SpecAlias runs two merges on one base with the dicts as objects, and    *)
(* SpecCam adds and turns cameras.                                         *)
(* Python exceptions are modelled as an outcome ("error" / a raised flag)  *)
(* that leaves the state as the code left it when the exception escaped.   *)
(***************************************************************************)
EXTENDS Integers, Sequences, FiniteSets, TLC

VARIABLES
    \* ---- SplitSWCTree (src/img_block_viewer.py:470-503)
    tr,            \* the input rows, a sequence of [id, parent]
    swc_pc,        \* "start", "loop", "walk", "done", "error"
    eid_pos,       \* position of the for loop in id_bounds (1-based)
    wi,            \* the local variable i of the upward walk
    filament,      \* the local list filament
    processes,     \* the list processes that is returned
    \* ---- MergeFullDict (src/img_block_viewer.py:281-302)
    d_contain,     \* the base node, mutated in place
    d_update,      \* the override node
    d_order,       \* the order in which d_update.items() yields its keys
    d_before,      \* d_contain as it was before the latest call
    d_orig,        \* d_contain as it was before the first call
    merge_raised,  \* whether the latest call raised
    n_merge,       \* number of calls made with the current d_update
    \* ---- GUIControl property registry (src/img_block_viewer.py:942-1418)
    props,             \* the vtkVolumeProperty objects, by object id
    object_properties, \* GUIControl.object_properties: name -> object id
    scene_objects,     \* GUIControl.scene_objects: name -> volume record
    selected_objects,  \* GUIControl.selected_objects
    renderer_actors,   \* the props attached to the renderers: [ren, name] with
                       \* name the key the object was registered under
    last_op,           \* what the latest operation was and how it ended
    \* ---- GetNonconflitName (src/img_block_viewer.py:273-279)
    gn_prefix,     \* the argument prefix
    gn_set,        \* the argument name_set
    gn_name,       \* the local variable name
    gn_i,          \* the local variable i
    gn_pc,         \* "loop" while in the function, "done" once it has returned
    \* ---- PointSetHolder, PointPicker (src/img_block_viewer.py:610-680)
    ps_points,     \* PointSetHolder.points: the columns, a sequence of <<x, y, z>>
    pk_p,          \* PointPicker.p of the latest picker
    pk_result,     \* what the latest PickAt returned
    pick_op,       \* the latest operation on the point cloud and its inputs
    \* ---- timerHandler, execSmoothRotation (src/img_block_viewer.py:683-732)
    clock,         \* time.time()
    anims,         \* the timerHandler objects with their exec_obj, in the order
                   \* of their AddObserver calls
    timers,        \* the timer ids of the interactor that are not destroyed
    cam_azimuth,   \* the sum of the angles passed to cam1.Azimuth
    \* ---- MyInteractorStyle mouse and modifier handling
    \* ---- (src/img_block_viewer.py:739-797)
    kbd,           \* what GetControlKey / GetAltKey / GetShiftKey return
    release_fn,    \* left_button_press_event_release_fn
    press_fwd,     \* what the latest left-button press forwarded to the base style
    release_fwd,   \* what the latest left-button release forwarded
    last_mouse,    \* "press" / "release": the latest left-button event
    kbd_test,      \* the latest call of is_kbd_modifier: the keys held then (k),
                   \* its u and its result
    \* ---- dict objects of two successive MergeFullDict calls on one base
    \* ---- (src/img_block_viewer.py:281-302)
    heap,          \* the dict objects: address -> (key -> scalar or reference)
    roots,         \* the addresses of base, o1 and o2
    alias_pc,      \* 0: nothing merged, 1: after merge(base, o1), 2: after
                   \* merge(base, o2)
    o1_orig,       \* the value of o1 before the first merge
    \* ---- Camera objects and the follow callback
    \* ---- (src/img_block_viewer.py:596-608, 1303-1330)
    cam_dir,       \* camera name -> its direction (position, roll and view up)
    cam_follow,    \* follower name -> the name in its 'follow_direction'
    cam_observers, \* camera name -> number of ModifiedEvent observers added
    cb_cams,       \* the attributes cam1, cam2 of CameraFollowCallbackFunction
    cam_event      \* the latest ModifiedEvent fired by a moved camera

swc_vars == <<tr, swc_pc, eid_pos, wi, filament, processes>>
merge_vars == <<d_contain, d_update, d_order, d_before, d_orig, merge_raised, n_merge>>
scene_vars == <<props, object_properties, scene_objects, selected_objects,
               renderer_actors, last_op>>
names_vars == <<gn_prefix, gn_set, gn_name, gn_i, gn_pc>>
pick_vars == <<ps_points, pk_p, pk_result, pick_op>>
timer_vars == <<clock, anims, timers, cam_azimuth>>
style_vars == <<kbd, release_fn, press_fwd, release_fwd, last_mouse, kbd_test>>
alias_vars == <<heap, roots, alias_pc, o1_orig>>
cam_vars == <<cam_dir, cam_follow, cam_observers, cb_cams, cam_event>>
vars == <<swc_vars, merge_vars, scene_vars, names_vars, pick_vars, timer_vars, style_vars,
         alias_vars, cam_vars>>

\* What the steps of one part of the program leave alone.
OutsideSWC == <<merge_vars, scene_vars, names_vars, pick_vars, timer_vars, style_vars, alias_vars, cam_vars>>
OutsideMerge == <<swc_vars, scene_vars, names_vars, pick_vars, timer_vars, style_vars, alias_vars, cam_vars>>
OutsideScene == <<swc_vars, merge_vars, names_vars, pick_vars, timer_vars, style_vars, alias_vars, cam_vars>>
OutsideNames == <<swc_vars, merge_vars, scene_vars, pick_vars, timer_vars, style_vars, alias_vars, cam_vars>>
OutsideObjects == <<swc_vars, merge_vars, names_vars, timer_vars, style_vars, alias_vars, cam_vars>>
OutsidePick == <<swc_vars, merge_vars, scene_vars, names_vars, timer_vars, style_vars, alias_vars, cam_vars>>
OutsideTimer == <<swc_vars, merge_vars, scene_vars, names_vars, pick_vars, style_vars, alias_vars, cam_vars>>
OutsideAlias == <<swc_vars, merge_vars, scene_vars, names_vars, pick_vars, timer_vars, style_vars,
                 cam_vars>>
OutsideCam == <<swc_vars, merge_vars, scene_vars, names_vars, pick_vars, timer_vars, style_vars,
               alias_vars>>
OutsideStyle == <<swc_vars, merge_vars, scene_vars, names_vars, pick_vars, timer_vars, alias_vars, cam_vars>>

(***************************************************************************)
(* Generic helpers.                                                        *)
(***************************************************************************)
Range(s) == {s[k] : k \in DOMAIN s}

Reverse(s) == [k \in 1..Len(s) |-> s[Len(s) + 1 - k]]

Max(S) == CHOOSE m \in S : \A k \in S : k <= m

\* Python's list / ndarray indexing: index k of a container of length len is
\* valid for -len <= k < len, and a negative k counts from the end.
PyIndexOK(len, k) == -len <= k /\ k < len

PyIndex(len, k) == IF k < 0 THEN k + len ELSE k

(***************************************************************************)
(* SplitSWCTree.  Rows and node indices are 0-based as in the source; a    *)
(* row r of tr is tr[r + 1].                                               *)
(***************************************************************************)
\* Bounds of the input trees.  LoadSWCTree (lines 458-465) indexes the loaded
\* array as d[:, ...], which np.loadtxt only allows for two rows or more.
MinNodes == 2
MaxNodes == 5
MaxBadNodes == 3
MaxWalk == 6

NoParent == -1

n_id(t) == Len(t)

RowId(t, r) == t[r + 1].id

RowParent(t, r) == t[r + 1].parent

max_id(t) == Max({RowId(t, r) : r \in 0..(n_id(t) - 1)})

\* arr_full = zeros(max_id+2); arr_full[-1] = -1; arr_full[ids] = arange(n_id)
arr_full(t) ==
    [k \in 0..(max_id(t) + 1) |->
        IF k = max_id(t) + 1 THEN -1
        ELSE IF \E r \in 0..(n_id(t) - 1) : RowId(t, r) = k
             THEN Max({r \in 0..(n_id(t) - 1) : RowId(t, r) = k})
             ELSE 0]

\* Whether the fancy indexing arr_full[tr_idx[:,0:2]] raises IndexError.
RelabelRaises(t) ==
    \E r \in 0..(n_id(t) - 1) :
        \/ ~PyIndexOK(max_id(t) + 2, RowId(t, r))
        \/ ~PyIndexOK(max_id(t) + 2, RowParent(t, r))

\* tr_idx[:,0:2] = arr_full[tr_idx[:,0:2]]: column 1 (the parent) relabelled.
tr_idx_parent(t, r) == arr_full(t)[PyIndex(max_id(t) + 2, RowParent(t, r))]

\* n_child,_ = np.histogram(tr_idx[1:,1], bins=np.arange(n_id)).  The n_id
\* edges 0..n_id-1 make n_id-1 bins; bin b is [b, b+1) except the last one,
\* which is closed: [n_id-2, n_id-1].  Row 0 is left out of the data, and a
\* value outside [0, n_id-1] is counted nowhere.
HistogramLastEdge(t) == n_id(t) - 1

n_child(t) ==
    [b \in 0..(HistogramLastEdge(t) - 1) |->
        Cardinality({r \in 1..(n_id(t) - 1) :
            \/ tr_idx_parent(t, r) = b
            \/ b = HistogramLastEdge(t) - 1 /\ tr_idx_parent(t, r) = HistogramLastEdge(t)})]

n_child_len(t) == HistogramLastEdge(t)

\* id_bounds = np.nonzero(n_child-1)[0], in increasing order.
RECURSIVE SortedSeq(_)
SortedSeq(S) ==
    IF S = {} THEN <<>>
    ELSE LET m == CHOOSE k \in S : \A j \in S : k <= j
         IN  <<m>> \o SortedSeq(S \ {m})

id_bounds(t) == SortedSeq({b \in 0..(n_child_len(t) - 1) : n_child(t)[b] # 1})

(***************************************************************************)
(* The input trees.  A tree is built from a shape (the parent of each row, *)
(* as a row number, NoParent for the root) and an id scheme (the node id   *)
(* of each row): ids need be neither dense nor 0-based nor in row order.   *)
(***************************************************************************)
IdSchemes(n) == { [r \in 0..(n - 1) |-> r + 1],        \* 1, 2, 3, ...
                  [r \in 0..(n - 1) |-> 2 * r] }       \* 0, 2, 4, ...

\* A parent entry of a shape: NoParent, a row 0..n-1, or one of three ids that
\* no row carries: n is max_id+1, n+1 is max_id+2, n+2 is an unused id below
\* max_id (below the first id when there is none).
DanglingId(n, ids, p) ==
    IF p = n THEN ids[n - 1] + 1
    ELSE IF p = n + 1 THEN ids[n - 1] + 2
    ELSE IF ids[0] = 0 /\ n > 1 THEN 1 ELSE ids[0] - 1 + (IF ids[0] = 0 THEN 3 ELSE 0)

MakeTree(n, ids, par) ==
    [k \in 1..n |->
        [id |-> ids[k - 1],
         parent |-> IF par[k - 1] = NoParent THEN NoParent
                    ELSE IF par[k - 1] >= n THEN DanglingId(n, ids, par[k - 1])
                    ELSE ids[par[k - 1]]]]

\* The parent row of row r, or NoParent, or n_id when the parent id is not
\* the id of any row (a dangling reference).
ParentRow(t, r) ==
    IF RowParent(t, r) = NoParent THEN NoParent
    ELSE IF \E q \in 0..(n_id(t) - 1) : RowId(t, q) = RowParent(t, r)
         THEN CHOOSE q \in 0..(n_id(t) - 1) : RowId(t, q) = RowParent(t, r)
         ELSE n_id(t)

RECURSIVE ReachesRoot(_, _, _)
ReachesRoot(t, r, fuel) ==
    IF r = NoParent THEN TRUE
    ELSE IF r = n_id(t) \/ fuel = 0 THEN FALSE
    ELSE ReachesRoot(t, ParentRow(t, r), fuel - 1)

\* The data-model invariants of a skeleton tree: exactly one root (parent
\* -1), every other parent present, no cycles.
ValidTree(t) ==
    /\ Cardinality({r \in 0..(n_id(t) - 1) : RowParent(t, r) = NoParent}) = 1
    /\ \A r \in 0..(n_id(t) - 1) : ReachesRoot(t, r, n_id(t) + 1)

\* The inputs: every valid tree of up to MaxNodes rows, and every input
\* (valid or not) of up to MaxBadNodes rows.
IsSWCInput(t) ==
    \E n \in MinNodes..MaxNodes : \E ids \in IdSchemes(n) :
        \/ \E par \in [0..(n - 1) -> ({NoParent} \cup 0..(n - 1))] :
              t = MakeTree(n, ids, par) /\ ValidTree(t)
        \/ /\ n <= MaxBadNodes
           /\ \E par \in [0..(n - 1) -> ({NoParent} \cup 0..(n + 2))] :
                 t = MakeTree(n, ids, par)

InitSWC ==
    /\ IsSWCInput(tr)
    /\ swc_pc = "start"
    /\ eid_pos = 1
    /\ wi = 0
    /\ filament = <<>>
    /\ processes = <<>>

\* Lines 475-490: relabel, histogram, id_bounds, processes = [].
SWCRelabel ==
    /\ swc_pc = "start"
    /\ swc_pc' = IF RelabelRaises(tr) THEN "error" ELSE "loop"
    /\ UNCHANGED <<tr, eid_pos, wi, filament, processes>>
    /\ UNCHANGED OutsideSWC

\* Lines 491-495: the next eid of the for loop; i = eid; filament = [i];
\* i = tr_idx[i, 1].
SWCBeginFilament ==
    /\ swc_pc = "loop"
    /\ eid_pos <= Len(id_bounds(tr))
    /\ filament' = <<id_bounds(tr)[eid_pos]>>
    /\ wi' = tr_idx_parent(tr, id_bounds(tr)[eid_pos])
    /\ swc_pc' = "walk"
    /\ UNCHANGED <<tr, eid_pos, processes>>
    /\ UNCHANGED OutsideSWC

\* Line 496: the loop test "n_child[i] == 1 and i != -1": n_child[i] is read
\* first, with Python's indexing.
WalkTestRaises(t, i) == ~PyIndexOK(n_child_len(t), i)

WalkTest(t, i) == n_child(t)[PyIndex(n_child_len(t), i)] = 1 /\ i # -1

\* Lines 496-498: one evaluation of the loop test and, when it holds, one
\* run of the loop body.
SWCWalk ==
    /\ swc_pc = "walk"
    /\ ~WalkTestRaises(tr, wi)
    /\ WalkTest(tr, wi)
    /\ Len(filament) < MaxWalk
    /\ filament' = Append(filament, wi)
    /\ wi' = tr_idx_parent(tr, wi)
    /\ UNCHANGED <<tr, swc_pc, eid_pos, processes>>
    /\ UNCHANGED OutsideSWC

\* Line 496 raising IndexError: the exception leaves SplitSWCTree.
SWCWalkRaise ==
    /\ swc_pc = "walk"
    /\ WalkTestRaises(tr, wi)
    /\ swc_pc' = "error"
    /\ UNCHANGED <<tr, eid_pos, wi, filament, processes>>
    /\ UNCHANGED OutsideSWC

\* Lines 499-501: the loop test failed; close the filament.
SWCEndFilament ==
    /\ swc_pc = "walk"
    /\ ~WalkTestRaises(tr, wi)
    /\ ~WalkTest(tr, wi)
    /\ processes' = Append(processes,
                           Reverse(IF wi # -1 THEN Append(filament, wi) ELSE filament))
    /\ eid_pos' = eid_pos + 1
    /\ swc_pc' = "loop"
    /\ UNCHANGED <<tr, wi, filament>>
    /\ UNCHANGED OutsideSWC

\* Line 503: return processes.
SWCReturn ==
    /\ swc_pc = "loop"
    /\ eid_pos > Len(id_bounds(tr))
    /\ swc_pc' = "done"
    /\ UNCHANGED <<tr, eid_pos, wi, filament, processes>>
    /\ UNCHANGED OutsideSWC

NextSWC ==
    \/ SWCRelabel
    \/ SWCBeginFilament
    \/ SWCWalk
    \/ SWCWalkRaise
    \/ SWCEndFilament
    \/ SWCReturn

(***************************************************************************)
(* MergeFullDict.  A configuration value is a record: a scalar             *)
(* [t |-> type, v |-> value] with t the Python type of the JSON value, or  *)
(* a nested node [t |-> "dict", d |-> function from keys to values].       *)
(* Two values are equal exactly when Python's == holds (dict equality      *)
(* does not look at insertion order).                                      *)
(***************************************************************************)
\* Bound: the number of distinct int values.
MaxVal == 2
\* Bound: the number of consecutive calls with one override.
MaxMerges == 2

Keys == {"a", "b"}

DictNode(f) == [t |-> "dict", d |-> f]

IsDict(x) == x.t = "dict"

EmptyDict == DictNode(<<>>)

Scalars == {[t |-> "int", v |-> k] : k \in 1..MaxVal} \cup {[t |-> "str", v |-> 1]}

FunctionsOver(S, V) == UNION {[K -> V] : K \in SUBSET S}

\* Nested nodes that hold scalars only.
LeafDicts == {DictNode(f) : f \in FunctionsOver(Keys, Scalars)}

SmallDicts == {DictNode(f) : f \in FunctionsOver({"a"}, Scalars)}

\* The nodes merged: key "a" holds a scalar or any leaf node, key "b" a
\* scalar or a leaf node over one key; either may be absent.
ConfigNodes ==
    {DictNode(f) : f \in
        {g \in FunctionsOver(Keys, Scalars \cup LeafDicts) :
            "b" \in DOMAIN g => g["b"] \in Scalars \cup SmallDicts}}

RECURSIVE SeqsOver(_)
SeqsOver(S) ==
    IF S = {} THEN {<<>>}
    ELSE UNION {{<<k>> \o q : q \in SeqsOver(S \ {k})} : k \in S}

\* The order of value.items() for a nested node of the bounded inputs.
ItemsOrder(node) == CHOOSE q \in SeqsOver(DOMAIN node.d) : \A i, j \in 1..Len(q) :
                        i < j => (q[i] = "a" \/ q[j] = "b")

SetKey(dc, key, value) ==
    DictNode([k \in DOMAIN dc.d \cup {key} |-> IF k = key THEN value ELSE dc.d[k]])

\* The same with the conflicting entry deleted instead of kept.
UpdateLeafDropOnMismatch(dc, key, value) ==
    IF dc.d[key].t = value.t THEN SetKey(dc, key, value)
    ELSE DictNode([k \in DOMAIN dc.d \ {key} |-> dc.d[k]])

\* The same without the sanity check of line 294.
UpdateLeafNoTypeCheck(dc, key, value) == SetKey(dc, key, value)

\* Lines 292-297: overwrite when the types agree, else discard with a warning.
UpdateLeaf(dc, key, value) ==
    IF dc.d[key].t = value.t THEN SetKey(dc, key, value) ELSE dc

\* Lines 285-298.  DeepUpdateFrom(dc, du, ord, i) is the for loop from the
\* i-th key of ord on; the result is d_contain as the loop left it and
\* whether an exception escaped.  With d_contain not a dict, the first
\* "key not in d_contain" / "d_contain[key] = value" raises TypeError
\* (int, list: no such operation; str: no item assignment), so the loop
\* raises as soon as d_update has one item and is a no-op when it has none.
RECURSIVE DeepUpdateFrom(_, _, _, _)
DeepUpdateFrom(dc, du, ord, i) ==
    IF i > Len(ord) THEN [d |-> dc, raised |-> FALSE]
    ELSE IF ~IsDict(dc) THEN [d |-> dc, raised |-> TRUE]
    ELSE LET key == ord[i]
             value == du.d[key]
         IN  IF key \notin DOMAIN dc.d
             THEN DeepUpdateFrom(SetKey(dc, key, value), du, ord, i + 1)
             ELSE IF IsDict(value)
             THEN LET r == DeepUpdateFrom(dc.d[key], value, ItemsOrder(value), 1)
                  IN  IF r.raised THEN [d |-> SetKey(dc, key, r.d), raised |-> TRUE]
                      ELSE DeepUpdateFrom(SetKey(dc, key, r.d), du, ord, i + 1)
             ELSE DeepUpdateFrom(UpdateLeaf(dc, key, value), du, ord, i + 1)

DeepUpdate(dc, du, ord) == DeepUpdateFrom(dc, du, ord, 1)

\* Lines 281-302.
MergeFullDict(dc, du, ord) == DeepUpdate(dc, du, ord)

InitMerge ==
    /\ d_contain \in ConfigNodes
    /\ d_update \in ConfigNodes
    /\ d_order \in SeqsOver(DOMAIN d_update.d)
    /\ d_before = d_contain
    /\ d_orig = d_contain
    /\ merge_raised = FALSE
    /\ n_merge = 0

\* One call MergeFullDict(d_contain, d_update) that returns.
MergeReturns ==
    /\ n_merge < MaxMerges
    /\ ~MergeFullDict(d_contain, d_update, d_order).raised
    /\ d_contain' = MergeFullDict(d_contain, d_update, d_order).d
    /\ d_before' = d_contain
    /\ merge_raised' = FALSE
    /\ n_merge' = n_merge + 1
    /\ UNCHANGED <<d_update, d_order, d_orig>>
    /\ UNCHANGED OutsideMerge

\* One call MergeFullDict(d_contain, d_update) that raises: d_contain keeps
\* what the call had merged up to there.
MergeRaises ==
    /\ n_merge < MaxMerges
    /\ MergeFullDict(d_contain, d_update, d_order).raised
    /\ d_contain' = MergeFullDict(d_contain, d_update, d_order).d
    /\ d_before' = d_contain
    /\ merge_raised' = TRUE
    /\ n_merge' = n_merge + 1
    /\ UNCHANGED <<d_update, d_order, d_orig>>
    /\ UNCHANGED OutsideMerge

NextMerge == MergeReturns \/ MergeRaises

(***************************************************************************)
(* Two successive MergeFullDict calls on one base, with the dicts as       *)
(* Python objects.  heap[at] is one dict object: a function from its keys  *)
(* to scalars or to references [t |-> "dict", at |-> address] of nested    *)
(* dict objects.  An assignment d_contain[key] = value of a nested dict    *)
(* stores the reference, not a copy.                                       *)
(***************************************************************************)
Ref(at) == [t |-> "dict", at |-> at]

\* json.loads / DefaultGUIConfigure building a value: every nested node is
\* a fresh dict object.  The result is the heap and the address of the node.
RECURSIVE StoreItems(_, _, _, _, _)
StoreItems(h, node, ord, i, cell) ==
    IF i > Len(ord) THEN [h |-> Append(h, cell), at |-> Len(h) + 1]
    ELSE LET key == ord[i]
             value == node.d[key]
         IN  IF IsDict(value)
             THEN LET r == StoreItems(h, value, ItemsOrder(value), 1, <<>>)
                  IN  StoreItems(r.h, node, ord, i + 1, cell @@ (key :> Ref(r.at)))
             ELSE StoreItems(h, node, ord, i + 1, cell @@ (key :> value))

Store(h, node) == StoreItems(h, node, ItemsOrder(node), 1, <<>>)

\* The value (what == compares) of the dict object at an address.
RECURSIVE ValueAt(_, _)
ValueAt(h, at) ==
    DictNode([k \in DOMAIN h[at] |->
                 IF h[at][k].t = "dict" THEN ValueAt(h, h[at][k].at) ELSE h[at][k]])

\* Line 288: d_contain[key] = value.
AssignItem(h, ac, key, value) == [h EXCEPT ![ac] = @ @@ (key :> value)]

\* Lines 285-298 on dict objects: d_contain is heap[ac], d_update is
\* heap[au]; the loop runs from the i-th key of ord on.  d_contain[key] not
\* a dict while value is one: DeepUpdate(d_contain[key], value) raises at
\* its first item and is a no-op without items (line 287 on an int or str).
RECURSIVE HeapDeepUpdateFrom(_, _, _, _, _)
HeapDeepUpdateFrom(h, ac, au, ord, i) ==
    IF i > Len(ord) THEN [h |-> h, raised |-> FALSE]
    ELSE LET key == ord[i]
             value == h[au][key]
         IN  IF key \notin DOMAIN h[ac]
             THEN HeapDeepUpdateFrom(AssignItem(h, ac, key, value), ac, au, ord, i + 1)
             ELSE IF value.t = "dict"
             THEN IF h[ac][key].t # "dict"
                  THEN IF DOMAIN h[value.at] = {}
                       THEN HeapDeepUpdateFrom(h, ac, au, ord, i + 1)
                       ELSE [h |-> h, raised |-> TRUE]
                  ELSE LET r == HeapDeepUpdateFrom(h, h[ac][key].at, value.at,
                                    ItemsOrder(DictNode(h[value.at])), 1)
                       IN  IF r.raised THEN r
                           ELSE HeapDeepUpdateFrom(r.h, ac, au, ord, i + 1)
             ELSE IF h[ac][key].t = value.t
             THEN HeapDeepUpdateFrom([h EXCEPT ![ac][key] = value], ac, au, ord, i + 1)
             ELSE HeapDeepUpdateFrom(h, ac, au, ord, i + 1)

\* Lines 281-302 on dict objects.
HeapMergeFullDict(h, ac, au) ==
    HeapDeepUpdateFrom(h, ac, au, ItemsOrder(DictNode(h[au])), 1)

\* The values of base, o1 and o2: key "a" holds a scalar or a leaf node.
AliasNodes == {DictNode(f) : f \in FunctionsOver({"a"}, Scalars \cup LeafDicts)}

\* base, o1 and o2 are three separately built values.
InitAlias ==
    \E b \in AliasNodes, x1 \in AliasNodes, x2 \in AliasNodes :
        LET r0 == Store(<<>>, b)
            r1 == Store(r0.h, x1)
            r2 == Store(r1.h, x2)
        IN  /\ heap = r2.h
            /\ roots = [base |-> r0.at, o1 |-> r1.at, o2 |-> r2.at]
            /\ alias_pc = 0
            /\ o1_orig = x1

\* MergeFullDict(base, o1); an exception is left to the caller.
MergeFirst ==
    /\ alias_pc = 0
    /\ heap' = HeapMergeFullDict(heap, roots.base, roots.o1).h
    /\ alias_pc' = 1
    /\ UNCHANGED <<roots, o1_orig>>
    /\ UNCHANGED OutsideAlias

\* MergeFullDict(base, o2) after it.
MergeSecond ==
    /\ alias_pc = 1
    /\ heap' = HeapMergeFullDict(heap, roots.base, roots.o2).h
    /\ alias_pc' = 2
    /\ UNCHANGED <<roots, o1_orig>>
    /\ UNCHANGED OutsideAlias

NextAlias == MergeFirst \/ MergeSecond

(***************************************************************************)
(* The state of a part of the program that a specification does not run.   *)
(***************************************************************************)
IdleSWC == /\ tr = <<>> /\ swc_pc = "idle" /\ eid_pos = 1 /\ wi = 0
           /\ filament = <<>> /\ processes = <<>>

IdleMerge == /\ d_contain = 0 /\ d_update = 0 /\ d_order = 0 /\ d_before = 0 /\ d_orig = 0
             /\ merge_raised = FALSE /\ n_merge = 0

IdleScene == /\ props = 0 /\ object_properties = 0 /\ scene_objects = 0
             /\ selected_objects = 0 /\ renderer_actors = 0 /\ last_op = 0

IdlePick == /\ ps_points = <<>> /\ pk_p = <<>> /\ pk_result = 0 /\ pick_op = 0

\* No animation has been started.
IdleTimer == /\ clock = 0 /\ anims = <<>> /\ timers = {} /\ cam_azimuth = 0

\* MyInteractorStyle.__init__ (lines 741-766): no key is held, no button
\* event has come, left_button_press_event_release_fn is None.
IdleAlias == /\ heap = <<>> /\ roots = 0 /\ alias_pc = 0 /\ o1_orig = 0

IdleCam == /\ cam_dir = 0 /\ cam_follow = 0 /\ cam_observers = 0 /\ cb_cams = 0
           /\ cam_event = 0

IdleStyle ==
    /\ kbd = [C |-> FALSE, A |-> FALSE, S |-> FALSE]
    /\ release_fn = "None"
    /\ press_fwd = "nothing"
    /\ release_fwd = "nothing"
    /\ last_mouse = "none"
    /\ kbd_test = [called |-> FALSE, k |-> <<>>, u |-> <<>>, result |-> FALSE]

IdleNames == /\ gn_prefix = "" /\ gn_set = {} /\ gn_name = "" /\ gn_i = 0 /\ gn_pc = "idle"

(***************************************************************************)
(* Transfer functions.  A curve is the node list of a vtkPiecewiseFunction *)
(* or vtkColorTransferFunction: a sequence of [x |-> position, y |-> the   *)
(* other fields], kept sorted by x by the toolkit.  Positions and scale    *)
(* factors are integers; opacities and colour components are in tenths.    *)
(* Model sequences are 1-based: node k of the source is element k + 1.     *)
(***************************************************************************)
Last(s) == s[Len(s)]

\* The toolkit's SortAndUpdateRange: a stable sort of the nodes by x.
RECURSIVE InsertByX(_, _)
InsertByX(c, nd) ==
    IF c = <<>> THEN <<nd>>
    ELSE IF Last(c).x <= nd.x THEN Append(c, nd)
    ELSE Append(InsertByX(SubSeq(c, 1, Len(c) - 1), nd), Last(c))

RECURSIVE SortByX(_)
SortByX(c) ==
    IF c = <<>> THEN <<>>
    ELSE InsertByX(SortByX(SubSeq(c, 1, Len(c) - 1)), Last(c))

\* pf.SetNodeValue(k, v) / ctf.SetNodeValue(k, v) (lines 521, 544): node k
\* takes the values v, and when that moves the node (its x changes) the
\* toolkit re-sorts the node list.
SetNodeValue(c, k, nd) ==
    IF c[k].x = nd.x THEN [c EXCEPT ![k] = nd]
    ELSE SortByX([c EXCEPT ![k] = nd])

\* otf.AddPoint(x, y) / ctf.AddRGBPoint(x, r, g, b) (lines 1081-1082, 1094):
\* a node already at x is replaced, and the list is kept sorted.
AddPoint(c, nd) ==
    InsertByX(SelectSeq(c, LAMBDA q : q.x # nd.x), nd)

RECURSIVE AddPoints(_, _, _)
AddPoints(c, pts, k) ==
    IF k > Len(pts) THEN c ELSE AddPoints(AddPoint(c, pts[k]), pts, k + 1)

ScalePoint(s, pt) == [pt EXCEPT !.x = s * pt.x]

ScalePoints(s, pts) == [k \in 1..Len(pts) |-> ScalePoint(s, pts[k])]

\* A section of a property configuration ('opacity_transfer_function' or
\* 'color_transfer_function'): whether the key is there, whether it holds
\* the control points ('AddPoint' / 'AddRGBPoint') and the scale
\* ('opacity_scale' / 'trans_scale').
Section(points, scale) ==
    [present |-> TRUE, has_pts |-> TRUE, pts |-> points, has_scale |-> TRUE, scale |-> scale]

ScaleOnly(scale) ==
    [present |-> TRUE, has_pts |-> FALSE, pts |-> <<>>, has_scale |-> TRUE, scale |-> scale]

NoSection ==
    [present |-> FALSE, has_pts |-> FALSE, pts |-> <<>>, has_scale |-> FALSE, scale |-> 0]

Pt(x, y) == [x |-> x, y |-> y]

\* DefaultSceneConfig()["object_properties"]["volume"] (lines 131-150).
DefaultVolumeConf ==
    [copy_from |-> "",
     otf |-> Section(<<Pt(20, 0), Pt(255, 2)>>, 40),
     ctf |-> Section(<<Pt(0, <<0, 0, 0>>), Pt(64, <<10, 0, 0>>), Pt(128, <<0, 0, 10>>),
                       Pt(192, <<0, 10, 0>>), Pt(255, <<0, 2, 0>>)>>, 40)]

\* A vtkVolumeProperty that has no curve set makes its own on first use.
VTKDefaultOTF == <<Pt(0, 10), Pt(1024, 10)>>

VTKDefaultCTF == <<Pt(0, <<0, 0, 0>>), Pt(1024, <<10, 10, 10>>)>>

\* The authored definition a rescale works from (lines 507-509, 529-531):
\* the prop_conf of ref_prop when the property has one, else its own.
BaselineConf(ps, id) ==
    IF ps[id].ref_prop # 0 THEN ps[ps[id].ref_prop].prop_conf ELSE ps[id].prop_conf

\* The new position computed from the node's current position.
RescaledXFromCurrent(s, authored, current) == s * current.x

\* The new position of a node: factor times the authored position.
RescaledX(s, authored, current) == s * authored.x

\* The second loop of UpdatePropertyOTFScale / UpdatePropertyCTFScale (lines
\* 519-521, 542-544) from node k on: v holds the nodes as read before the
\* loop, auth the authored points.  auth[k] raises IndexError past its end.
RECURSIVE RescaleFrom(_, _, _, _, _)
RescaleFrom(c, v, auth, s, k) ==
    IF k > Len(v) THEN [c |-> c, raised |-> FALSE]
    ELSE IF k > Len(auth) THEN [c |-> c, raised |-> TRUE]
    ELSE RescaleFrom(SetNodeValue(c, k, [v[k] EXCEPT !.x = RescaledX(s, auth[k], v[k])]),
                     v, auth, s, k + 1)

\* Whether the lookup of the authored points raises KeyError (lines 509, 531).
OTFLookupRaises(ps, id) ==
    ~BaselineConf(ps, id).otf.present \/ ~BaselineConf(ps, id).otf.has_pts

CTFLookupRaises(ps, id) ==
    ~BaselineConf(ps, id).ctf.present \/ ~BaselineConf(ps, id).ctf.has_pts

\* UpdatePropertyOTFScale(obj_prop, otf_s) with a factor (lines 505-522): the
\* property objects afterwards, and whether the call raised.
UpdatePropertyOTFScale(ps, id, s) ==
    IF OTFLookupRaises(ps, id) THEN [ps |-> ps, raised |-> TRUE]
    ELSE LET r == RescaleFrom(ps[id].otf, ps[id].otf, BaselineConf(ps, id).otf.pts, s, 1)
         IN  [ps |-> [ps EXCEPT ![id].otf = r.c], raised |-> r.raised]

\* UpdatePropertyCTFScale(obj_prop, ctf_s) with a factor (lines 524-544).
UpdatePropertyCTFScale(ps, id, s) ==
    IF CTFLookupRaises(ps, id) THEN [ps |-> ps, raised |-> TRUE]
    ELSE LET r == RescaleFrom(ps[id].ctf, ps[id].ctf, BaselineConf(ps, id).ctf.pts, s, 1)
         IN  [ps |-> [ps EXCEPT ![id].ctf = r.c], raised |-> r.raised]

\* GetColorScale(obj_prop) (lines 546-550).  The two quotients are kept as
\* numerator and denominator.
GetColorScaleRaises(ps, id) == OTFLookupRaises(ps, id) \/ CTFLookupRaises(ps, id)

GetColorScale(ps, id) ==
    [otf_num |-> Last(ps[id].otf).x, otf_den |-> Last(BaselineConf(ps, id).otf.pts).x,
     ctf_num |-> Last(ps[id].ctf).x, ctf_den |-> Last(BaselineConf(ps, id).ctf.pts).x]

\* SetColorScale(obj_prop, scale) (lines 552-560) with the two factors.
SetColorScale(ps, id, otf_s, ctf_s) ==
    LET o == UpdatePropertyOTFScale(ps, id, otf_s)
    IN  IF o.raised THEN o ELSE UpdatePropertyCTFScale(o.ps, id, ctf_s)

(***************************************************************************)
(* GUIControl.  The property objects live in props (object id = index);    *)
(* a property object is [otf, ctf, prop_conf, ref_prop] with ref_prop the  *)
(* id of the object it was copied from, 0 when it has no such attribute.   *)
(* An operator on the registry takes the state st = [props,                *)
(* object_properties, scene_objects, selected_objects] and gives the state *)
(* the call left and whether it raised.                                    *)
(***************************************************************************)
\* Bound: the number of operations of one run.
MaxOps == 3

Returned(st) == [st |-> st, raised |-> FALSE]

Raised(st) == [st |-> st, raised |-> TRUE]

\* "%d" % i: no padding.
PadNone(i) == ToString(i)

\* "%.3d" % i: at least three digits, zero-padded.
Pad3(i) ==
    IF i < 10 THEN "00" \o ToString(i)
    ELSE IF i < 100 THEN "0" \o ToString(i)
    ELSE ToString(i)

\* The requested name, registered or not.
KeepName(prefix, name_set) == prefix

\* GetNonconflitName(prefix, name_set) (lines 273-279), from the loop test on.
RECURSIVE NonconflitNameFrom(_, _, _, _)
NonconflitNameFrom(prefix, name_set, name, i) ==
    IF name \notin name_set THEN name
    ELSE NonconflitNameFrom(prefix, name_set, prefix \o "." \o Pad3(i), i + 1)

GetNonconflitName(prefix, name_set) == NonconflitNameFrom(prefix, name_set, prefix, 1)

(***************************************************************************)
(* Camera objects.  The direction of a camera stands for what              *)
(* AlignCameraDirection copies: the unit vector from the focal point to    *)
(* the position, the roll and the view up.  CameraFollowCallbackFunction   *)
(* is one module-level function; cam1 and cam2 are attributes of it.       *)
(***************************************************************************)
\* Bound: the number of camera operations of a behaviour.
MaxCamOps == 4

CamDirs == {0, 1, 2}

CameraNameInputs == {"camera3", "camera4"}

\* obj_conf of type 'Camera': with 'Azimuth' / 'Elevation' or with
\* 'follow_direction' ("camera9" is never an object of the scene).
CameraConfInputs ==
    {[follow |-> FALSE, dir |-> d, ref |-> ""] : d \in CamDirs}
    \cup {[follow |-> TRUE, dir |-> 0, ref |-> r] :
             r \in {"camera1", "camera3", "camera9"}}

\* Lines 596-602: cam2 takes the direction of cam1.
AlignCameraDirection(dirs, cam2, cam1) == [dirs EXCEPT ![cam2] = dirs[cam1]]

\* Lines 604-608: the callback aligns the pair held in its attributes,
\* whoever the caller is.
CameraFollowCallbackFunction(dirs, cb) == AlignCameraDirection(dirs, cb.cam2, cb.cam1)

\* The cameras of DefaultSceneConfig (lines 160-172) after UtilizerInit:
\* camera2 follows camera1.
InitCam ==
    /\ cam_dir = [c \in {"camera1", "camera2"} |-> 0]
    /\ cam_follow = [c \in {"camera2"} |-> "camera1"]
    /\ cam_observers = [c \in {"camera1", "camera2"} |-> IF c = "camera1" THEN 1 ELSE 0]
    /\ cb_cams = [cam1 |-> "camera1", cam2 |-> "camera2"]
    /\ cam_event = [n |-> 0, op |-> "", cam |-> "", raised |-> FALSE]

\* AddObjects(name, obj_conf) with obj_conf['type'] == 'Camera' (lines
\* 1129-1133, 1303-1330).  A 'follow_direction' that names no object raises
\* KeyError at line 1319, before anything is stored.
CallAddCamera ==
    /\ cam_event.n < MaxCamOps
    /\ \E name0 \in CameraNameInputs : \E conf \in CameraConfInputs :
          LET name == IF name0 \in DOMAIN cam_dir
                      THEN GetNonconflitName(name0, DOMAIN cam_dir)
                      ELSE name0
              raised == conf.follow /\ conf.ref \notin DOMAIN cam_dir
          IN  /\ cam_event' = [n |-> cam_event.n + 1, op |-> "AddObjects",
                               cam |-> name, raised |-> raised]
              /\ IF raised THEN UNCHANGED <<cam_dir, cam_follow, cam_observers, cb_cams>>
                 ELSE IF conf.follow
                 THEN /\ cam_dir' = cam_dir @@ (name :> cam_dir[conf.ref])
                      /\ cam_follow' = cam_follow @@ (name :> conf.ref)
                      /\ cam_observers' =
                             [cam_observers EXCEPT ![conf.ref] = @ + 1] @@ (name :> 0)
                      /\ cb_cams' = [cam1 |-> conf.ref, cam2 |-> name]
                 ELSE /\ cam_dir' = cam_dir @@ (name :> conf.dir)
                      /\ cam_observers' = cam_observers @@ (name :> 0)
                      /\ UNCHANGED <<cam_follow, cb_cams>>
    /\ UNCHANGED OutsideCam

\* A camera of the scene is turned (interaction, Azimuth, SetPosition) and
\* fires ModifiedEvent: each observer added to it calls
\* CameraFollowCallbackFunction.  The calls after the first find cam2
\* aligned already.
CameraModified ==
    /\ cam_event.n < MaxCamOps
    /\ \E cam \in DOMAIN cam_dir : \E d \in CamDirs \ {cam_dir[cam]} :
          LET moved == [cam_dir EXCEPT ![cam] = d]
          IN  /\ cam_dir' = IF cam_observers[cam] > 0
                            THEN CameraFollowCallbackFunction(moved, cb_cams)
                            ELSE moved
              /\ cam_event' = [n |-> cam_event.n + 1, op |-> "ModifiedEvent",
                               cam |-> cam, raised |-> FALSE]
    /\ UNCHANGED <<cam_follow, cam_observers, cb_cams>>
    /\ UNCHANGED OutsideCam

NextCam == CallAddCamera \/ CameraModified

(***************************************************************************)
(* GetNonconflitName step by step, one action per pass of its while loop,  *)
(* on bounded inputs.  The input sets are written with a digit-by-digit    *)
(* rendering of the counter, not with the formatting of the function.      *)
(***************************************************************************)
\* Bound: the input sets hold any subset of the names numbered 1..MaxHoley.
MaxHoley == 3
\* Bound: the input sets hold the full run of names numbered 1..n, n <= MaxRun.
MaxRun == 101

\* The decimal digits of k, as many as needed and no fewer than three.
ThreeDigits(k) ==
    IF k < 1000
    THEN ToString(k \div 100) \o ToString((k \div 10) % 10) \o ToString(k % 10)
    ELSE ToString(k)

NumberedName(prefix, k) == prefix \o "." \o ThreeDigits(k)

PrefixInputs == {"x", "x.001"}

NameSetInputs(prefix) ==
    { base \cup {NumberedName(prefix, k) : k \in K} \cup other :
        base \in {{}, {prefix}},
        K \in (SUBSET (1..MaxHoley)) \cup {1..n : n \in 0..MaxRun},
        other \in {{}, {"y", prefix \o ".1", prefix \o ".01"}} }

\* Lines 274-275 have run: i = 1, name = prefix.
InitNames ==
    /\ gn_prefix \in PrefixInputs
    /\ gn_set \in NameSetInputs(gn_prefix)
    /\ gn_name = gn_prefix
    /\ gn_i = 1
    /\ gn_pc = "loop"

\* Lines 276-278: one pass of the while loop.
GNLoopBody ==
    /\ gn_pc = "loop"
    /\ gn_name \in gn_set
    /\ gn_name' = gn_prefix \o "." \o Pad3(gn_i)
    /\ gn_i' = gn_i + 1
    /\ UNCHANGED <<gn_prefix, gn_set, gn_pc>>
    /\ UNCHANGED OutsideNames

\* Lines 276, 279: the loop test fails and name is returned.
GNReturn ==
    /\ gn_pc = "loop"
    /\ gn_name \notin gn_set
    /\ gn_pc' = "done"
    /\ UNCHANGED <<gn_prefix, gn_set, gn_name, gn_i>>
    /\ UNCHANGED OutsideNames

NextNames == GNLoopBody \/ GNReturn

\* The property names the model uses that satisfy name.startswith("volume").
VolumeNames ==
    {"volume", "volume_user"} \cup {"volume." \o Pad3(i) : i \in 1..(MaxOps + 1)}

StartsWithVolume(name) == name \in VolumeNames

\* GUIControl.ModifyObjectProperty(name, prop_conf) (lines 1114-1127).
ModifyObjectProperty(st, name, conf) ==
    IF name \notin DOMAIN st.object_properties THEN Raised(st)
    ELSE IF ~StartsWithVolume(name) THEN Returned(st)
    ELSE LET id == st.object_properties[name]
             o == IF conf.otf.present /\ conf.otf.has_scale
                  THEN UpdatePropertyOTFScale(st.props, id, conf.otf.scale)
                  ELSE [ps |-> st.props, raised |-> FALSE]
             c == IF o.raised THEN o
                  ELSE IF conf.ctf.present /\ conf.ctf.has_scale
                  THEN UpdatePropertyCTFScale(o.ps, id, conf.ctf.scale)
                  ELSE o
         IN  [st |-> [st EXCEPT !.props = c.ps], raised |-> c.raised]

Register(st, name, prop) ==
    [st EXCEPT !.props = Append(st.props, prop),
               !.object_properties =
                   [n \in DOMAIN st.object_properties \cup {name} |->
                       IF n = name THEN Len(st.props) + 1 ELSE st.object_properties[n]]]

\* Lines 1074-1083 and 1085-1095: whether building a curve from a section
\* raises (a missing key; fewer than the two opacity points that are read).
OTFBuildRaises(sec) ==
    sec.present /\ (~sec.has_pts \/ ~sec.has_scale \/ Len(sec.pts) < 2)

CTFBuildRaises(sec) == sec.present /\ (~sec.has_pts \/ ~sec.has_scale)

\* Lines 1074-1083: the opacity curve gets the first two authored points.
BuildOTF(sec) ==
    IF sec.present
    THEN AddPoints(<<>>, ScalePoints(sec.scale, SubSeq(sec.pts, 1, 2)), 1)
    ELSE VTKDefaultOTF

\* Lines 1085-1095: the colour curve gets every authored point.
BuildCTF(sec) ==
    IF sec.present
    THEN AddPoints(<<>>, ScalePoints(sec.scale, sec.pts), 1)
    ELSE VTKDefaultCTF

\* GUIControl.AddObjectProperty(name, prop_conf) (lines 1055-1112).
AddObjectProperty(st, name, conf) ==
    IF ~StartsWithVolume(name) THEN Raised(st)     \* object_property is unbound at line 1112
    ELSE IF conf.copy_from # ""
    THEN IF conf.copy_from \notin DOMAIN st.object_properties THEN Raised(st)
         ELSE LET ref == st.object_properties[conf.copy_from]
                  copy == [otf |-> st.props[ref].otf, ctf |-> st.props[ref].ctf,
                           prop_conf |-> conf, ref_prop |-> ref]
              IN  ModifyObjectProperty(Register(st, name, copy), name, conf)
    ELSE IF OTFBuildRaises(conf.otf) \/ CTFBuildRaises(conf.ctf) THEN Raised(st)
    ELSE Returned(Register(st, name,
                           [otf |-> BuildOTF(conf.otf), ctf |-> BuildCTF(conf.ctf),
                            prop_conf |-> conf, ref_prop |-> 0]))

SetObject(st, name, obj) ==
    [st EXCEPT !.scene_objects =
        [n \in DOMAIN st.scene_objects \cup {name} |->
            IF n = name THEN obj ELSE st.scene_objects[n]]]

\* GUIControl.AddObjects(name, obj_conf) for obj_conf['type'] == 'volume'
\* (lines 1129-1184, 1332); prop is obj_conf.get('property', 'volume'), a
\* property name or, with is_dict, a property configuration, and ren is
\* obj_conf.get('renderer', '0').  Reading the image file is taken to succeed.
AddObjectsVolume(st, name0, prop, ren) ==
    LET name == IF name0 \in DOMAIN st.scene_objects
                THEN GetNonconflitName(name0, DOMAIN st.scene_objects)
                ELSE name0
        prop_name == IF prop.is_dict
                     THEN GetNonconflitName("volume", DOMAIN st.object_properties)
                     ELSE prop.name
        added == IF prop.is_dict THEN AddObjectProperty(st, prop_name, prop.conf)
                 ELSE Returned(st)
    IN  IF added.raised THEN added
        ELSE IF prop_name \notin DOMAIN added.st.object_properties THEN Raised(added.st)
        ELSE Returned([SetObject(added.st, name,
                                 [type |-> "volume",
                                  prop |-> added.st.object_properties[prop_name]])
                         EXCEPT !.selected_objects = <<name>>,
                                !.renderer_actors = @ \cup {[ren |-> ren, name |-> name]}])

\* The property of the object EasyObjectImporter builds (lines 1398-1407);
\* colorscale 0 stands for no 'colorscale' in obj_desc.
ImporterProperty(colorscale) ==
    IF colorscale # 0
    THEN [is_dict |-> TRUE, name |-> "",
          conf |-> [copy_from |-> "volume", otf |-> ScaleOnly(colorscale),
                    ctf |-> ScaleOnly(colorscale)]]
    ELSE [is_dict |-> FALSE, name |-> "volume", conf |-> DefaultVolumeConf]

\* GUIControl.EasyObjectImporter(obj_desc) for a .tif file path (lines
\* 1357-1410).
EasyObjectImporter(st, colorscale) ==
    AddObjectsVolume(st, GetNonconflitName("volume", DOMAIN st.scene_objects),
                     ImporterProperty(colorscale), "0")

\* GUIControl.__init__ (lines 943-961): the scene after
\* AppendToScene(DefaultSceneConfig()).
NonVolume(type) == [type |-> type, prop |-> 0]

DefaultScene ==
    [props |-> <<[otf |-> BuildOTF(DefaultVolumeConf.otf), ctf |-> BuildCTF(DefaultVolumeConf.ctf),
                  prop_conf |-> DefaultVolumeConf, ref_prop |-> 0]>>,
     object_properties |-> [n \in {"volume"} |-> 1],
     scene_objects |-> [background |-> NonVolume("Background"), 3d_cursor |-> NonVolume("Sphere"),
                        camera1 |-> NonVolume("Camera"), camera2 |-> NonVolume("Camera"),
                        orientation_axes |-> NonVolume("AxesActor")],
     selected_objects |-> <<>>,
     renderer_actors |-> {[ren |-> "0", name |-> "3d_cursor"],
                          [ren |-> "1", name |-> "orientation_axes"]},
     points |-> <<>>]

State == [props |-> props, object_properties |-> object_properties,
          scene_objects |-> scene_objects, selected_objects |-> selected_objects,
          renderer_actors |-> renderer_actors, points |-> ps_points]

\* The inputs of the operations.
ScaleInputs == {1, 2, 81}

UserConf ==
    [copy_from |-> "",
     otf |-> Section(<<Pt(20, 0), Pt(100, 1), Pt(255, 2)>>, 1),
     ctf |-> Section(<<Pt(0, <<0, 0, 0>>), Pt(255, <<10, 10, 10>>)>>, 1)]

DerivedConfs ==
    {[copy_from |-> src, otf |-> sec, ctf |-> sec] :
        src \in {"volume", "volume.001"},
        sec \in {NoSection} \cup {ScaleOnly(s) : s \in ScaleInputs \ {1}}}

PropertyNameInputs == {"volume.001", "volume_user"}

PropertyConfInputs == {UserConf} \cup DerivedConfs

Update(r, op) ==
    /\ props' = r.st.props
    /\ object_properties' = r.st.object_properties
    /\ scene_objects' = r.st.scene_objects
    /\ selected_objects' = r.st.selected_objects
    /\ renderer_actors' = r.st.renderer_actors
    /\ last_op' = [op EXCEPT !.raised = r.raised, !.pre = props, !.n = last_op.n + 1]
    /\ UNCHANGED OutsideScene

NoOp == [op |-> "", name |-> "", id |-> 0, s |-> 0, raised |-> FALSE, pre |-> <<>>, n |-> 0]

InitScene ==
    /\ props = DefaultScene.props
    /\ object_properties = DefaultScene.object_properties
    /\ scene_objects = DefaultScene.scene_objects
    /\ selected_objects = DefaultScene.selected_objects
    /\ renderer_actors = DefaultScene.renderer_actors
    /\ last_op = NoOp

\* A call of AddObjectProperty, as AppendToScene makes for each entry of
\* "object_properties" (lines 1336-1338).
CallAddObjectProperty ==
    /\ last_op.n < MaxOps
    /\ \E name \in PropertyNameInputs : \E conf \in PropertyConfInputs :
          Update(AddObjectProperty(State, name, conf),
                 [NoOp EXCEPT !.op = "AddObjectProperty", !.name = name,
                              !.id = Len(props) + 1])

\* A call SetColorScale(obj_prop, scale) with a scalar scale on a property
\* object.
CallSetColorScale ==
    /\ last_op.n < MaxOps
    /\ \E id \in 1..Len(props) : \E s \in ScaleInputs :
          LET r == SetColorScale(props, id, s, s)
          IN  Update([st |-> [State EXCEPT !.props = r.ps], raised |-> r.raised],
                     [NoOp EXCEPT !.op = "SetColorScale", !.id = id, !.s = s])

\* A call of EasyObjectImporter with a .tif file, with or without colorscale.
CallEasyObjectImporter ==
    /\ last_op.n < MaxOps
    /\ \E cs \in {0} \cup (ScaleInputs \ {1}) :
          Update(EasyObjectImporter(State, cs),
                 [NoOp EXCEPT !.op = "EasyObjectImporter", !.s = cs,
                              !.name = GetNonconflitName("volume", DOMAIN scene_objects),
                              !.id = Len(props) + 1])

Init == InitScene /\ IdleSWC /\ IdleMerge /\ IdleNames /\ IdlePick /\ IdleTimer /\ IdleStyle
    /\ IdleAlias /\ IdleCam

Next ==
    \/ CallAddObjectProperty
    \/ CallSetColorScale
    \/ CallEasyObjectImporter

(***************************************************************************)
(* GUIControl object registry: AddObjects for every object type,           *)
(* AppendToScene and RemoveObjects.                                        *)
(***************************************************************************)
\* Bound: the number of registry operations of one run.
MaxObjOps == 2

\* GUIControl.renderers after GUISetup(DefaultGUIConfig()) (lines 116-124).
Renderers == {"0", "1"}

\* The new columns before the old ones.
PointSetHolder_Prepend(points, new) == new \o points

\* PointSetHolder.AddPoints(points, name) (lines 675-676): np.append along
\* axis 1 makes a new array with the new columns after the old ones.
PointSetHolder_AddPoints(points, new) == points \o new

\* SplitSWCTree(t) as one call: the upward walk of lines 496-498 from i, with
\* fuel passes of the loop body left.  A walk that outlasts n_id passes has
\* come back to a row it has visited and never ends.
RECURSIVE WalkOutcome(_, _, _)
WalkOutcome(t, i, fuel) ==
    IF WalkTestRaises(t, i) THEN "raises"
    ELSE IF ~WalkTest(t, i) THEN "returns"
    ELSE IF fuel = 0 THEN "loops"
    ELSE WalkOutcome(t, tr_idx_parent(t, i), fuel - 1)

SplitSWCTreeOutcome(t) ==
    IF RelabelRaises(t) THEN "raises"
    ELSE LET outs == [k \in 1..Len(id_bounds(t)) |->
                         WalkOutcome(t, tr_idx_parent(t, id_bounds(t)[k]), n_id(t))]
             bad == {k \in 1..Len(id_bounds(t)) : outs[k] # "returns"}
         IN  IF bad = {} THEN "returns"
             ELSE outs[CHOOSE k \in bad : \A j \in bad : k <= j]

\* An obj_conf: renderer "" stands for no 'renderer' key, follow "" for no
\* 'follow_direction' key, angles for which of 'Azimuth' / 'Elevation' are
\* given ("none", "both", "azimuth"), color for whether 'color' is given,
\* file for the content of the swc file.
ObjConf(type, renderer) ==
    [type |-> type, renderer |-> renderer, file |-> <<>>, follow |-> "",
     angles |-> "none", color |-> TRUE, property |-> [is_dict |-> FALSE, name |-> "volume", conf |-> NoSection]]

\* Lines 1303-1330: whether building a Camera raises KeyError.
CameraRaises(st, conf) ==
    \/ conf.angles = "azimuth"
    \/ conf.follow # "" /\ conf.follow \notin DOMAIN st.scene_objects

\* Lines 1332 and the AddActor call of the branch: register the handle under
\* name, attached to renderer ren when the type is an actor.
RegisterObject(st, name, type, ren) ==
    [SetObject(st, name, NonVolume(type)) EXCEPT
        !.renderer_actors = IF type \in {"swc", "AxesActor", "Sphere"}
                            THEN @ \cup {[ren |-> ren, name |-> name]} ELSE @]

\* GUIControl.AddObjects(name, obj_conf) (lines 1129-1332).  An exception of
\* SplitSWCTree (line 1198) leaves AddObjects before AddPoints (line 1201);
\* the swc files of the inputs have no cycle, so that the call ends.
AddObjects(st, name0, conf) ==
    LET name == IF name0 \in DOMAIN st.scene_objects
                THEN GetNonconflitName(name0, DOMAIN st.scene_objects)
                ELSE name0
        ren == IF conf.renderer = "" THEN "0" ELSE conf.renderer
    IN  IF ren \notin Renderers THEN Raised(st)                  \* KeyError, line 1135
        ELSE IF conf.type = "volume" THEN AddObjectsVolume(st, name0, conf.property, ren)
        ELSE IF conf.type = "swc"
        THEN LET added == [st EXCEPT !.points = PointSetHolder_AddPoints(@, conf.file.xyz)]
             IN  IF SplitSWCTreeOutcome(conf.file.rows) # "returns" THEN Raised(st)
                 ELSE IF ~conf.color THEN Raised(added)          \* KeyError, line 1235
                 ELSE Returned(RegisterObject(added, name, "swc", ren))
        ELSE IF conf.type \in {"AxesActor", "Sphere", "OrientationMarker"}
        THEN Returned(RegisterObject(st, name, conf.type, ren))
        ELSE IF conf.type = "Background"
        THEN IF ~conf.color THEN Raised(st)                      \* KeyError, line 1300
             ELSE Returned(RegisterObject(st, name, "Background", ren))
        ELSE IF conf.type = "Camera"
        THEN IF CameraRaises(st, conf) THEN Raised(st)
             ELSE Returned(RegisterObject(st, name, "Camera", ren))
        ELSE Raised(st)                  \* scene_object is unbound at line 1332

\* GUIControl.AppendToScene(scene_conf) (lines 1335-1345): the two loops, from
\* entry i of "object_properties" and entry j of "objects" on.  An exception
\* of AddObjectProperty or AddObjects leaves the loop and AppendToScene.
RECURSIVE AppendObjectsFrom(_, _, _)
AppendObjectsFrom(st, objs, j) ==
    IF j > Len(objs) THEN Returned(st)
    ELSE LET r == AddObjects(st, objs[j].name, objs[j].conf)
         IN  IF r.raised THEN r ELSE AppendObjectsFrom(r.st, objs, j + 1)

RECURSIVE AppendPropertiesFrom(_, _, _)
AppendPropertiesFrom(st, prps, i) ==
    IF i > Len(prps) THEN Returned(st)
    ELSE LET r == AddObjectProperty(st, prps[i].name, prps[i].conf)
         IN  IF r.raised THEN r ELSE AppendPropertiesFrom(r.st, prps, i + 1)

\* The sections in the order in which the dict holds them.
AppendToSceneInDictOrder(st, scene_conf) ==
    IF scene_conf.first = "objects, object_properties"
    THEN LET r == AppendObjectsFrom(st, scene_conf.objects, 1)
         IN  IF r.raised THEN r ELSE AppendPropertiesFrom(r.st, scene_conf.object_properties, 1)
    ELSE LET r == AppendPropertiesFrom(st, scene_conf.object_properties, 1)
         IN  IF r.raised THEN r ELSE AppendObjectsFrom(r.st, scene_conf.objects, 1)

AppendToScene(st, scene_conf) ==
    LET r == AppendPropertiesFrom(st, scene_conf.object_properties, 1)
    IN  IF r.raised THEN r ELSE AppendObjectsFrom(r.st, scene_conf.objects, 1)

\* GUIControl.RemoveObjects(name) (lines 1347-1355).  For a registered name
\* line 1353 evaluates the global name "re", which the module neither
\* defines nor imports: NameError, before RemoveActor and the del.
RemoveObjects(st, name) ==
    IF name \notin DOMAIN st.scene_objects THEN Returned(st)
    ELSE Raised(st)

(***************************************************************************)
(* PointPicker.  Coordinates are integers and every quantity the source    *)
(* computes in floating point is kept exact, as a numerator over a         *)
(* positive denominator.  cam_m is the model-view matrix: R its rows       *)
(* 0..2, columns 0..2, and T its column 3.  Point indices are 0-based as   *)
(* in the source: point k is p[k + 1].                                     *)
(***************************************************************************)
\* cam_min_view_distance (line 636).
cam_min_view_distance == 0
\* selection_angle_tol = 0.01 (line 637), as TolNum / TolDen.
TolNum == 1
TolDen == 100
\* view_length = 2*tan(view_angle/2) (line 626) for a view angle of 90 degrees.
ViewLength == 2

Dot3(a, b) == a[1] * b[1] + a[2] * b[2] + a[3] * b[3]

\* a * m < n for integers a, n and m > 0, without forming the product.
TimesLess(a, m, n) == a <= (n - 1) \div m

\* M.T @ x for a 3x3 matrix M given by its rows.
TransposeApply(M, x) ==
    <<M[1][1] * x[1] + M[2][1] * x[2] + M[3][1] * x[3],
      M[1][2] * x[1] + M[2][2] * x[2] + M[3][2] * x[3],
      M[1][3] * x[1] + M[2][3] * x[2] + M[3][3] * x[3]>>

\* PointPicker.init(points, camera, screen_dims) (lines 616-633) with the
\* default vertical view angle: p is a copy of points, and pixel_scale is
\* unit_view_window / screen_dims = view_length / screen_dims[1] on both axes.
PointPickerInit(points, cam_m, screen_dims) ==
    [p |-> points, cam_m |-> cam_m, screen_dims |-> screen_dims,
     pixel_scale |-> ViewLength \div screen_dims[2]]

\* Line 640: o = - cam_m[0:3,0:3].T @ cam_m[0:3,3:4].
PickOrigin(pk) ==
    LET w == TransposeApply(pk.cam_m.R, pk.cam_m.T) IN <<-w[1], -w[2], -w[3]>>

\* Lines 642-643: posxy_cam and the ray direction v.
PickRay(pk, posxy) ==
    TransposeApply(pk.cam_m.R,
        <<((2 * posxy[1] - pk.screen_dims[1]) \div 2) * pk.pixel_scale,
          ((2 * posxy[2] - pk.screen_dims[2]) \div 2) * pk.pixel_scale,
          -1>>)

\* Line 645: u = p - o, for point k.
PickU(pk, k) ==
    LET o == PickOrigin(pk) q == pk.p[k + 1] IN <<q[1] - o[1], q[2] - o[2], q[3] - o[3]>>

\* Line 646: t = (v.T @ u) / (v.T @ v), as TNum / TDen.
TNum(pk, v, k) == Dot3(v, PickU(pk, k))

TDen(v) == Dot3(v, v)

\* Line 647: dist = norm(u - v*t); DistSqNum / TDen^2 is its square.
DistSqNum(pk, v, k) ==
    LET u == PickU(pk, k)
        w == [c \in 1..3 |-> u[c] * TDen(v) - v[c] * TNum(pk, v, k)]
    IN  Dot3(w, w)

\* Line 648: angle_dist = dist / t; for t > 0 its square is
\* DistSqNum / TNum^2, and for t = 0 it is nan or inf.
\* Line 663: in_view_tol = (t > cam_min_view_distance) & (angle_dist < tol).
in_view_tol(pk, v, k) ==
    /\ TNum(pk, v, k) > cam_min_view_distance * TDen(v)
    /\ TimesLess(DistSqNum(pk, v, k), TolDen * TolDen,
                 TolNum * TolNum * TNum(pk, v, k) * TNum(pk, v, k))

\* angle_dist of point j is less than that of point k, both with t > 0.
AngleLess(pk, v, j, k) ==
    DistSqNum(pk, v, j) * TNum(pk, v, k) * TNum(pk, v, k)
        < DistSqNum(pk, v, k) * TNum(pk, v, j) * TNum(pk, v, j)

\* The same without the test on t.
PickAtAnyDepth(pk, posxy) ==
    LET v == PickRay(pk, posxy)
        sel == {k \in 0..(Len(pk.p) - 1) :
                   TNum(pk, v, k) # 0 /\
                   TimesLess(DistSqNum(pk, v, k), TolDen * TolDen,
                             TolNum * TolNum * TNum(pk, v, k) * TNum(pk, v, k))}
    IN  IF sel = {} THEN [id |-> <<>>, xyz |-> <<>>]
        ELSE LET best == CHOOSE k \in sel : \A j \in sel : j # k => ~AngleLess(pk, v, j, k)
             IN  [id |-> <<best>>, xyz |-> pk.p[best + 1]]

\* PointPicker.PickAt(posxy) (lines 635-668): ID_selected and p[:, ID_selected].
\* np.argmin gives the first of the selected points with the least value.
PickAt(pk, posxy) ==
    LET v == PickRay(pk, posxy)
        ID_selected == {k \in 0..(Len(pk.p) - 1) : in_view_tol(pk, v, k)}
    IN  IF ID_selected = {} THEN [id |-> <<>>, xyz |-> <<>>]
        ELSE LET best == CHOOSE k \in ID_selected :
                            \A j \in ID_selected :
                                /\ ~AngleLess(pk, v, j, k)
                                /\ (j < k => AngleLess(pk, v, k, j))
             IN  [id |-> <<best>>, xyz |-> pk.p[best + 1]]

(***************************************************************************)
(* The point cloud and the picker in use: AddObjects adds the points of a  *)
(* skeleton (line 1201), and a right-button press builds a PointPicker on  *)
(* the cloud and picks at the click position (lines 833-834).              *)
(***************************************************************************)
\* Bound: the number of points of the cloud.
MaxCloud == 3

PointInputs ==
    { <<0, 0, -5>>, <<1, 0, -120>>, <<5, 0, -1>>, <<0, 0, 5>>,
      <<0, 0, 0>>, <<5, 0, -5>>, <<-5, 0, 0>>, <<-120, 0, 1>> }

PointBatches == {<<a>> : a \in PointInputs} \cup {<< <<0, 0, -5>>, <<1, 0, -120>> >>}

Identity3 == << <<1, 0, 0>>, <<0, 1, 0>>, <<0, 0, 1>> >>

\* A quarter turn about the y axis.
QuarterTurnY == << <<0, 0, -1>>, <<0, 1, 0>>, <<1, 0, 0>> >>

\* A camera at the origin looking along -z, and one at <<3, 0, 0>> looking
\* along -x.
CameraInputs ==
    { [R |-> Identity3, T |-> <<0, 0, 0>>],
      [R |-> QuarterTurnY, T |-> <<0, 0, -3>>] }

\* A window of 2 x 2 pixels: with ViewLength = 2 a pixel is one unit of the
\* view window, and <<1, 1>> is the screen centre.
ScreenDims == <<2, 2>>

ClickInputs == { <<1, 1>>, <<2, 1>>, <<0, 0>> }

NoPick == [id |-> <<>>, xyz |-> <<>>]

NoPickOp == [op |-> "", cam_m |-> <<>>, posxy |-> <<>>]

InitPick ==
    /\ ps_points = <<>>
    /\ pk_p = <<>>
    /\ pk_result = NoPick
    /\ pick_op = NoPickOp

\* point_set_holder.AddPoints(raw_points.T, '') (line 1201).
PickAddPoints ==
    /\ \E new \in PointBatches :
          /\ Len(ps_points) + Len(new) <= MaxCloud
          /\ ps_points' = PointSetHolder_AddPoints(ps_points, new)
    /\ pick_op' = [NoPickOp EXCEPT !.op = "AddPoints"]
    /\ UNCHANGED <<pk_p, pk_result>>
    /\ UNCHANGED OutsidePick

\* MyInteractorStyle.right_button_press_event (lines 824-847), as far as the
\* point cloud is concerned: PointPicker(point_set_holder(), ren), PickAt.
RightButtonPress ==
    /\ \E cam_m \in CameraInputs : \E posxy \in ClickInputs :
          LET pk == PointPickerInit(ps_points, cam_m, ScreenDims)
          IN  /\ pk_p' = pk.p
              /\ pk_result' = PickAt(pk, posxy)
              /\ pick_op' = [op |-> "PickAt", cam_m |-> cam_m, posxy |-> posxy]
    /\ UNCHANGED ps_points
    /\ UNCHANGED OutsidePick

NextPick == PickAddPoints \/ RightButtonPress

(***************************************************************************)
(* The registry in use: calls of AddObjects, AppendToScene and             *)
(* RemoveObjects on the scene GUIControl.__init__ built, and right-button  *)
(* presses in between.                                                     *)
(***************************************************************************)
\* The shape of a chain: the parent of row r is row r - 1, row 0 is the root.
ChainShape(n) == [r \in 0..(n - 1) |-> r - 1]

\* A chain whose last row names a parent id above max_id + 1.
BrokenShape(n) == [r \in 0..(n - 1) |-> IF r = n - 1 THEN n + 1 ELSE r - 1]

\* The content of an swc file: rows is what SplitSWCTree reads (ntree[0]),
\* xyz the coordinates of the rows (ntree[1][:,0:3]).
GoodSwcFile ==
    [rows |-> MakeTree(2, CHOOSE ids \in IdSchemes(2) : ids[0] = 1, ChainShape(2)),
     xyz |-> << <<-120, 0, 1>>, <<-5, 0, 0>> >>]

\* A chain of three rows with the ids 0, 2, 4.
LongSwcFile ==
    [rows |-> MakeTree(3, CHOOSE ids \in IdSchemes(3) : ids[0] = 0, ChainShape(3)),
     xyz |-> << <<0, 0, -5>>, <<1, 0, -120>>, <<0, 0, 5>> >>]

BadSwcFile ==
    [rows |-> MakeTree(2, CHOOSE ids \in IdSchemes(2) : ids[0] = 1, BrokenShape(2)),
     xyz |-> << <<0, 0, -5>>, <<5, 0, -1>> >>]

SwcConf(file, color) == [ObjConf("swc", "") EXCEPT !.file = file, !.color = color]

ObjectNameInputs == {"3d_cursor", "neuron"}

ObjectConfInputs ==
    { ObjConf("volume", ""),
      SwcConf(GoodSwcFile, TRUE), SwcConf(BadSwcFile, TRUE), SwcConf(LongSwcFile, FALSE),
      ObjConf("AxesActor", "1"), ObjConf("Sphere", "9"), ObjConf("OrientationMarker", ""),
      [ObjConf("Background", "") EXCEPT !.color = FALSE],
      [ObjConf("Camera", "1") EXCEPT !.follow = "camera1"],
      [ObjConf("Camera", "") EXCEPT !.follow = "camera9"],
      [ObjConf("Camera", "") EXCEPT !.angles = "azimuth"],
      ObjConf("Mesh", "") }

\* A scene_conf: its "object_properties" and "objects" in the order of
\* .items(), and which of the two sections comes first in the dict.
SectionOrders == {"object_properties, objects", "objects, object_properties"}

SceneConfInputs ==
    { [first |-> "objects, object_properties",
       object_properties |-> <<>>,
       objects |-> << [name |-> "mesh", conf |-> ObjConf("Mesh", "")],
                      [name |-> "neuron", conf |-> SwcConf(GoodSwcFile, TRUE)] >>],
      [first |-> "objects, object_properties",
       object_properties |-> <<>>,
       objects |-> << [name |-> "3d_cursor", conf |-> ObjConf("Sphere", "")],
                      [name |-> "neuron", conf |-> SwcConf(GoodSwcFile, TRUE)] >>] }
    \cup
    { [first |-> order,
       object_properties |-> << [name |-> "volume.001",
                                 conf |-> [copy_from |-> "volume", otf |-> NoSection,
                                           ctf |-> NoSection]] >>,
       objects |-> << [name |-> "brain",
                       conf |-> [ObjConf("volume", "") EXCEPT
                                    !.property = [is_dict |-> FALSE, name |-> "volume.001",
                                                  conf |-> NoSection]]] >>] :
        order \in SectionOrders }

RemoveNameInputs == {"3d_cursor", "neuron", "nothing"}

UpdateObjects(r, op) ==
    /\ props' = r.st.props
    /\ object_properties' = r.st.object_properties
    /\ scene_objects' = r.st.scene_objects
    /\ selected_objects' = r.st.selected_objects
    /\ renderer_actors' = r.st.renderer_actors
    /\ ps_points' = r.st.points
    /\ last_op' = [op EXCEPT !.raised = r.raised, !.n = last_op.n + 1]
    /\ UNCHANGED <<pk_p, pk_result, pick_op>>
    /\ UNCHANGED OutsideObjects

CallAddObjects ==
    /\ last_op.n < MaxObjOps
    /\ \E name \in ObjectNameInputs : \E conf \in ObjectConfInputs :
          UpdateObjects(AddObjects(State, name, conf),
                        [NoOp EXCEPT !.op = "AddObjects", !.name = name])

CallAppendToScene ==
    /\ last_op.n < MaxObjOps
    /\ \E scene_conf \in SceneConfInputs :
          UpdateObjects(AppendToScene(State, scene_conf),
                        [NoOp EXCEPT !.op = "AppendToScene",
                                     !.name = scene_conf.objects[1].name,
                                     !.s = IF scene_conf.first = "objects, object_properties"
                                           THEN 1 ELSE 0])

CallRemoveObjects ==
    /\ last_op.n < MaxObjOps
    /\ \E name \in RemoveNameInputs :
          UpdateObjects(RemoveObjects(State, name),
                        [NoOp EXCEPT !.op = "RemoveObjects", !.name = name])

NextObjects ==
    \/ CallAddObjects
    \/ CallAppendToScene
    \/ CallRemoveObjects
    \/ RightButtonPress

(***************************************************************************)
(* timerHandler and execSmoothRotation.  Time is an integer number of      *)
(* clock units.  An element of anims is one timerHandler with its          *)
(* exec_obj: time_start, duration, degree_per_sec, time_last_update and    *)
(* timerId are the fields of the two objects (start() gives both the same  *)
(* time_start); rotation is the sum of the angles this exec_obj has passed *)
(* to Azimuth, t_last_tick the time of the latest TimerEvent its callback  *)
(* has seen, n_ticks their number, stopped whether a caller has called     *)
(* stop(), and rotation_at_stop the rotation when that call returned.      *)
(***************************************************************************)
\* Bounds: the last clock value, the number of animations started, and the
\* number of TimerEvents one callback sees.
MaxTime == 4
MaxAnims == 2
MaxTicks == 3

\* Inputs: by how much the clock advances in one step, and the duration (in
\* clock units) and the rate (in degrees per clock unit) of an animation.
\* OnChar asks for 6.0 seconds at 60.0 degrees per second (lines 901-902).
ClockSteps == {1, 2}

Durations == {2, 3}

Rates == {60}

\* One more clock unit since the last update, whatever the time.
OneUnitElapsed(e, time_now) == 1

\* Line 697: t_last_elapsed = time_now - self.time_last_update.
t_last_elapsed(e, time_now) == time_now - e.time_last_update

\* execSmoothRotation.__call__(obj, event, time_now) (lines 695-702).
execSmoothRotation_call(e, time_now) ==
    IF time_now < e.time_start THEN e
    ELSE [e EXCEPT !.rotation = @ + e.degree_per_sec * t_last_elapsed(e, time_now),
                   !.time_last_update = time_now]

\* Line 715: whether callback calls self.stop().
CallbackStops(h, t_now) == t_now - h.time_start > h.duration

\* timerHandler.callback(obj, event) (lines 713-719) with time.time() = t_now.
timerHandler_callback(h, t_now) ==
    [execSmoothRotation_call(h, IF CallbackStops(h, t_now)
                                THEN h.time_start + h.duration ELSE t_now)
        EXCEPT !.t_last_tick = t_now, !.n_ticks = @ + 1]

\* timerHandler.stop() (lines 727-729): timerId is 1 or more, hence true.
timerHandler_stop(h, alive) == alive \ {h.timerId}

RECURSIVE SumRotation(_, _)
SumRotation(hs, k) == IF k = 0 THEN 0 ELSE hs[k].rotation + SumRotation(hs, k - 1)

\* time.time() advances.
ClockAdvance ==
    /\ \E d \in ClockSteps : clock + d <= MaxTime /\ clock' = clock + d
    /\ UNCHANGED <<anims, timers, cam_azimuth>>
    /\ UNCHANGED OutsideTimer

\* MyInteractorStyle.OnChar for 'r' (lines 897-902): a new execSmoothRotation
\* and timerHandler, and timerHandler.start() (lines 721-725).  The
\* interactor numbers its timers from 1.
OnCharR ==
    /\ Len(anims) < MaxAnims
    /\ \E duration \in Durations : \E degree_per_sec \in Rates :
          anims' = Append(anims,
                          [time_start |-> clock, duration |-> duration,
                           degree_per_sec |-> degree_per_sec, time_last_update |-> clock,
                           timerId |-> Len(anims) + 1, rotation |-> 0, t_last_tick |-> -1,
                           n_ticks |-> 0, stopped |-> FALSE, rotation_at_stop |-> 0])
    /\ timers' = timers \cup {Len(anims) + 1}
    /\ UNCHANGED <<clock, cam_azimuth>>
    /\ UNCHANGED OutsideTimer

\* A timer of the interactor fires: the interactor invokes every observer of
\* 'TimerEvent', that is the callback of every timerHandler that was started
\* (line 722; no observer is ever removed).
TimerEvent ==
    /\ timers # {}
    /\ \A a \in 1..Len(anims) : anims[a].n_ticks < MaxTicks
    /\ anims' = [a \in 1..Len(anims) |-> timerHandler_callback(anims[a], clock)]
    /\ timers' = timers \ {anims[a].timerId : a \in {b \in 1..Len(anims) :
                                                CallbackStops(anims[b], clock)}}
    /\ cam_azimuth' = cam_azimuth + SumRotation(anims', Len(anims)) - SumRotation(anims, Len(anims))
    /\ UNCHANGED clock
    /\ UNCHANGED OutsideTimer

\* A call of timerHandler.stop() on an animation in progress.
CallStop ==
    /\ \E a \in 1..Len(anims) :
          /\ ~anims[a].stopped
          /\ clock - anims[a].time_start <= anims[a].duration
          /\ timers' = timerHandler_stop(anims[a], timers)
          /\ anims' = [anims EXCEPT ![a].stopped = TRUE,
                                    ![a].rotation_at_stop = anims[a].rotation]
    /\ UNCHANGED <<clock, cam_azimuth>>
    /\ UNCHANGED OutsideTimer

NextTimer == ClockAdvance \/ OnCharR \/ TimerEvent \/ CallStop

(***************************************************************************)
(* MyInteractorStyle: the modifier test and the left mouse button.  A      *)
(* Python string is the sequence of its characters.                        *)
(***************************************************************************)
\* str.upper() on the characters of the inputs.
UpperChar(ch) ==
    IF ch = "c" THEN "C" ELSE IF ch = "a" THEN "A" ELSE IF ch = "s" THEN "S" ELSE ch

upper(u) == [i \in 1..Len(u) |-> UpperChar(u[i])]

\* ch in u.
InStr(ch, u) == \E i \in 1..Len(u) : u[i] = ch

\* Lines 774-776 and 778-780.  A conditional expression binds weaker than +,
\* so  'C' if c else ' ' + 'A' if a else ' ' + 'S' if s else ' '  is
\* 'C' if c else ((' ' + 'A') if a else ((' ' + 'S') if s else ' ')).
ModifierString(c, a, sh) ==
    IF c THEN "C" ELSE IF a THEN " " \o "A" ELSE IF sh THEN " " \o "S" ELSE " "

\* MyInteractorStyle.is_kbd_modifier(u) (lines 772-781) with the keys k held.
is_kbd_modifier(k, u) ==
    LET m == ModifierString(k.C, k.A, k.S)
        p == ModifierString(InStr("C", upper(u)), InStr("A", upper(u)), InStr("S", upper(u)))
    IN  p = m

\* The arguments u: the two the source passes (lines 784, 788) and others.
ModifierInputs ==
    { <<>>, <<"S">>, <<"s">>, <<"C">>, <<"A">>, <<"C", "S">>, <<"a", "c">>,
      <<"C", "A", "S">>, <<"x">> }

Booleans == {TRUE, FALSE}

\* The user presses or lets go of modifier keys.
ModifierKeysChange ==
    /\ kbd' \in [C : Booleans, A : Booleans, S : Booleans]
    /\ kbd' # kbd
    /\ UNCHANGED <<release_fn, press_fwd, release_fwd, last_mouse, kbd_test>>
    /\ UNCHANGED OutsideStyle

\* A call of is_kbd_modifier(u).
CallIsKbdModifier ==
    /\ \E u \in ModifierInputs :
          kbd_test' = [called |-> TRUE, k |-> kbd, u |-> u,
                       result |-> is_kbd_modifier(kbd, u)]
    /\ UNCHANGED <<kbd, release_fn, press_fwd, release_fwd, last_mouse>>
    /\ UNCHANGED OutsideStyle

\* MyInteractorStyle.left_button_press_event (lines 783-791).
left_button_press_event ==
    /\ last_mouse # "press"
    /\ last_mouse' = "press"
    /\ IF is_kbd_modifier(kbd, <<>>)
       THEN press_fwd' = "OnLeftButtonDown" /\ release_fn' = "OnLeftButtonUp"
       ELSE IF is_kbd_modifier(kbd, <<"S">>)
       THEN press_fwd' = "OnMiddleButtonDown" /\ release_fn' = "OnMiddleButtonUp"
       ELSE press_fwd' = "nothing" /\ UNCHANGED release_fn
    /\ UNCHANGED <<kbd, release_fwd, kbd_test>>
    /\ UNCHANGED OutsideStyle

\* MyInteractorStyle.left_button_release_event (lines 793-797).
left_button_release_event ==
    /\ last_mouse = "press"
    /\ last_mouse' = "release"
    /\ release_fwd' = IF release_fn # "None" THEN release_fn ELSE "OnLeftButtonUp"
    /\ UNCHANGED <<kbd, release_fn, press_fwd, kbd_test>>
    /\ UNCHANGED OutsideStyle

(***************************************************************************)
(* The +/- keys: MyInteractorStyle.OnChar rescales the property of the     *)
(* active object (lines 903-918), on a scene to which volumes are added.   *)
(***************************************************************************)
VolumeNameInputs == {"brain", "cortex"}

\* A volume that uses the property "volume", and one that brings a property
\* of its own, derived from "volume".
VolumeConfInputs ==
    { ObjConf("volume", ""),
      [ObjConf("volume", "") EXCEPT !.property = ImporterProperty(2)] }

CallAddVolume ==
    /\ last_op.n < MaxOps
    /\ \E name \in VolumeNameInputs : \E conf \in VolumeConfInputs :
          Update(AddObjects(State, name, conf),
                 [NoOp EXCEPT !.op = "AddObjects", !.name = name])

\* OnChar for '+' or '-' with an object selected (lines 903-918).  The new
\* scales cs_o*k and cs_c*k, k = 2^(1/4) or its inverse, are no integers: the
\* model lets them be any one input scale other than the current one.
OnCharPlusMinus ==
    /\ last_op.n < MaxOps
    /\ selected_objects # <<>>
    /\ LET vol_name == selected_objects[1]
           obj_prop == scene_objects[vol_name].prop
       IN  IF GetColorScaleRaises(props, obj_prop)
           THEN Update(Raised(State), [NoOp EXCEPT !.op = "OnChar", !.name = vol_name,
                                                   !.id = obj_prop])
           ELSE \E s \in ScaleInputs :
                   /\ s * GetColorScale(props, obj_prop).otf_den
                          # GetColorScale(props, obj_prop).otf_num
                   /\ LET r == SetColorScale(props, obj_prop, s, s)
                      IN  Update([st |-> [State EXCEPT !.props = r.ps], raised |-> r.raised],
                                 [NoOp EXCEPT !.op = "OnChar", !.name = vol_name,
                                              !.id = obj_prop, !.s = s])

NextKeys == CallAddVolume \/ OnCharPlusMinus

NextStyle ==
    \/ ModifierKeysChange
    \/ CallIsKbdModifier
    \/ left_button_press_event
    \/ left_button_release_event

(***************************************************************************)
(* Claims about SplitSWCTree.  A node "appears in" a segment when its row  *)
(* index is an element of that segment.                                    *)
(***************************************************************************)
SegmentsWith(k) == {s \in 1..Len(processes) : k \in Range(processes[s])}

\* How often the rows c and p are consecutive elements of a segment, in
\* either order.
PairCount(c, p) ==
    Cardinality({sj \in (1..Len(processes)) \X (1..MaxWalk) :
        /\ sj[2] < Len(processes[sj[1]])
        /\ \/ processes[sj[1]][sj[2]] = p /\ processes[sj[1]][sj[2] + 1] = c
           \/ processes[sj[1]][sj[2]] = c /\ processes[sj[1]][sj[2] + 1] = p})

ChildRows(t, r) == {c \in 0..(n_id(t) - 1) : ParentRow(t, c) = r}

\* The tree (1,-1),(2,1),(3,1),(4,2),(5,2) of the specification.
ExampleTree ==
    << [id |-> 1, parent |-> -1], [id |-> 2, parent |-> 1], [id |-> 3, parent |-> 1],
       [id |-> 4, parent |-> 2], [id |-> 5, parent |-> 2] >>

\* C1: for every valid tree, every node index 0..n-1 appears in at least one
\* segment that SplitSWCTree returns.
C1_EveryNodeInSomeSegment ==
    (swc_pc = "done" /\ ValidTree(tr)) =>
        \A k \in 0..(n_id(tr) - 1) : SegmentsWith(k) # {}

C3_ExampleDecomposition ==
    (swc_pc = "done" /\ tr = ExampleTree) =>
        /\ Len(processes) = 3
        /\ \A k \in 0..4 : SegmentsWith(k) # {}
        /\ \A k \in 0..4 :
              IF ChildRows(tr, k) = {}
              THEN Cardinality(SegmentsWith(k)) = 1
              ELSE Cardinality(SegmentsWith(k)) >= 2

\* Some row's chain of parents comes back to a row it has passed (a cycle) or
\* names an id that no row carries (a dangling reference).
HasCycleOrDangling(t) ==
    \E r \in 0..(n_id(t) - 1) : ~ReachesRoot(t, r, n_id(t) + 1)

\* C15: for a tree with a cycle or a dangling parent reference SplitSWCTree
\* does not return segments.
C15_MalformedTreeRejected ==
    HasCycleOrDangling(tr) => swc_pc # "done"

\* C21: for a valid tree SplitSWCTree reads no index out of range, and no
\* upward walk takes more steps than the tree has rows.
C21_ValidTreeReturnsNormally ==
    ValidTree(tr) => (swc_pc # "error" /\ Len(filament) <= n_id(tr))

\* C22: in every segment returned for a valid tree each element is the
\* parent of the next, the last element is a leaf or a branch point, and
\* every element strictly between the first and the last has exactly one
\* child.
C22_SegmentsFollowEdges ==
    (swc_pc = "done" /\ ValidTree(tr)) =>
        \A s \in 1..Len(processes) :
            LET seg == processes[s]
            IN  /\ \A j \in 1..(Len(seg) - 1) : ParentRow(tr, seg[j + 1]) = seg[j]
                /\ Cardinality(ChildRows(tr, seg[Len(seg)])) # 1
                /\ \A j \in 2..(Len(seg) - 1) : Cardinality(ChildRows(tr, seg[j])) = 1

(***************************************************************************)
(* Claims about MergeFullDict.  d_orig is the base before the first call,  *)
(* d_before the base before the latest call, d_contain the base now.       *)
(***************************************************************************)
\* Every entry of old is still in new with its type, and where over holds a
\* value of another type for it the old value is still there; the same for
\* the entries of nested nodes.
RECURSIVE LeafTypesKept(_, _, _)
LeafTypesKept(old, new, over) ==
    \A k \in DOMAIN old.d :
        /\ k \in DOMAIN new.d
        /\ new.d[k].t = old.d[k].t
        /\ (IsDict(over) /\ k \in DOMAIN over.d /\ over.d[k].t # old.d[k].t)
              => new.d[k] = old.d[k]
        /\ IsDict(old.d[k]) =>
              LeafTypesKept(old.d[k], new.d[k],
                            IF IsDict(over) /\ k \in DOMAIN over.d THEN over.d[k] ELSE EmptyDict)

\* C8: MergeFullDict never changes the type of a leaf that exists in base: an
\* override value of another type is discarded and the old value retained.
C8_LeafTypeNeverChanges ==
    n_merge >= 1 => LeafTypesKept(d_orig, d_contain, d_update)

\* A call has returned in which a scalar of base met a scalar of another type.
C8_Witness ==
    /\ n_merge = 1
    /\ ~merge_raised
    /\ \E k \in DOMAIN d_orig.d \cap DOMAIN d_update.d :
          /\ ~IsDict(d_orig.d[k]) /\ ~IsDict(d_update.d[k])
          /\ d_orig.d[k].t # d_update.d[k].t
    /\ d_contain # d_orig

\* C9: merging the same override a second time changes nothing:
\* merge(merge(b, o), o) = merge(b, o).
C9_MergeIdempotent ==
    n_merge >= 2 => d_contain = d_before

\* Two calls have returned, the first of which changed base, with a nested
\* node merged and a value of another type discarded.
C9_Witness ==
    /\ n_merge = 2
    /\ ~merge_raised
    /\ d_before # d_orig
    /\ \E k \in DOMAIN d_orig.d \cap DOMAIN d_update.d :
          IsDict(d_orig.d[k]) /\ IsDict(d_update.d[k]) /\ d_before.d[k] # d_orig.d[k]
    /\ \E k \in DOMAIN d_orig.d \cap DOMAIN d_update.d : d_orig.d[k].t # d_update.d[k].t

\* What the contract of merge(base, override) describes.
RECURSIVE ExpectedMerge(_, _)
ExpectedMerge(b, o) ==
    DictNode([k \in DOMAIN b.d \cup DOMAIN o.d |->
        IF k \notin DOMAIN o.d THEN b.d[k]
        ELSE IF k \notin DOMAIN b.d THEN o.d[k]
        ELSE IF IsDict(b.d[k]) /\ IsDict(o.d[k]) THEN ExpectedMerge(b.d[k], o.d[k])
        ELSE IF b.d[k].t = o.d[k].t THEN o.d[k]
        ELSE b.d[k]])

\* C10: MergeFullDict(base, override) returns base changed only where override
\* says: absent keys keep their value, nested nodes are merged key by key, a
\* leaf of the same type is overwritten, a new key is added, and {} changes
\* nothing.
C10_MergeFrame ==
    n_merge = 1 => (~merge_raised /\ d_contain = ExpectedMerge(d_orig, d_update))

\* Some key of both nodes, at any depth, holds values of different types: two
\* scalars of different types, a scalar and a nested node, or the reverse.
RECURSIVE HasTypeMismatch(_, _)
HasTypeMismatch(b, o) ==
    \E k \in DOMAIN b.d \cap DOMAIN o.d :
        \/ b.d[k].t # o.d[k].t
        \/ IsDict(b.d[k]) /\ IsDict(o.d[k]) /\ HasTypeMismatch(b.d[k], o.d[k])

\* C11: when an override value and the base value of a key differ in type, the
\* override value is dropped and the merge continues: the call returns
\* normally and every other key of override is merged.
C11_MismatchDroppedMergeContinues ==
    (n_merge = 1 /\ HasTypeMismatch(d_orig, d_update)) =>
        /\ ~merge_raised
        /\ d_contain = ExpectedMerge(d_orig, d_update)

\* C26: MergeFullDict never modifies its override argument and the merged
\* base shares no nested node with it: after merge(base, o1) and after
\* merge(base, o2) following it, the value of o1 is the value it had before
\* the first merge.
C26_OverrideNeverModified ==
    alias_pc >= 1 => ValueAt(heap, roots.o1) = o1_orig

(***************************************************************************)
(* Claims about GetNonconflitName.                                         *)
(***************************************************************************)
\* The name the contract describes: prefix when it is free, else prefix with
\* the smallest positive counter whose name is free, in three digits.
ExpectedName(prefix, name_set) ==
    IF prefix \notin name_set THEN prefix
    ELSE NumberedName(prefix,
            CHOOSE k \in 1..(Cardinality(name_set) + 1) :
                /\ NumberedName(prefix, k) \notin name_set
                /\ \A j \in 1..(k - 1) : NumberedName(prefix, j) \in name_set)

\* C12: GetNonconflitName terminates, and the name it returns is not in
\* existing_names: prefix itself when that is free, otherwise prefix + '.' +
\* the smallest positive counter whose name is free, zero-padded to 3 digits.
C12_NameIsFreshAndSmallest ==
    /\ [](gn_pc = "done" => (gn_name \notin gn_set /\ gn_name = ExpectedName(gn_prefix, gn_set)))
    /\ <>(gn_pc = "done")

\* The function has returned a name with a counter of two digits or more,
\* after passing over names that were taken.
C12_Witness ==
    /\ gn_pc = "done"
    /\ gn_prefix \in gn_set
    /\ gn_i > 10
    /\ gn_name = NumberedName(gn_prefix, gn_i - 1)

(***************************************************************************)
(* Claims about PointPicker.  The claim is stated in camera coordinates:   *)
(* a point q of the world is R q + T for the camera, which looks along -z, *)
(* and a click at posxy is the ray through <<cx, cy, -1>>.                 *)
(***************************************************************************)
CamCoords(cam_m, q) ==
    <<Dot3(cam_m.R[1], q) + cam_m.T[1], Dot3(cam_m.R[2], q) + cam_m.T[2],
      Dot3(cam_m.R[3], q) + cam_m.T[3]>>

ClickRay(posxy) ==
    <<posxy[1] - ScreenDims[1] \div 2, posxy[2] - ScreenDims[2] \div 2, -1>>

\* The square of the angular distance of the camera-space point q to the ray
\* c, times (c.q)^2 / (c.c): |q|^2 (c.c) - (c.q)^2.
CrossSq(c, q) == Dot3(q, q) * Dot3(c, c) - Dot3(c, q) * Dot3(c, q)

\* Ray depth above the minimum view distance (0) and angular distance below
\* the tolerance (0.01).
Pickable(c, q) ==
    /\ Dot3(c, q) > 0
    /\ CrossSq(c, q) * Dot3(c, c) <= (Dot3(c, q) * Dot3(c, q) - 1) \div 10000

\* The angular distance of q1 is below that of q2, for pickable q1, q2.
CloserToRay(c, q1, q2) ==
    CrossSq(c, q1) * Dot3(c, q2) * Dot3(c, q2) < CrossSq(c, q2) * Dot3(c, q1) * Dot3(c, q1)

PickedCloud == [k \in 1..Len(pk_p) |-> CamCoords(pick_op.cam_m, pk_p[k])]

PickableSet == {k \in 1..Len(pk_p) : Pickable(ClickRay(pick_op.posxy), PickedCloud[k])}

OnForwardAxis(q) == q[1] = 0 /\ q[2] = 0 /\ q[3] < 0

\* C14: PickAt returns no selection exactly when no point has ray depth above
\* 0 together with angular distance below 0.01; otherwise it returns the index
\* and coordinates of such a point of least angular distance.  With exactly
\* one point on the camera's forward axis and no other point pickable, a pick
\* at the screen centre returns that point.
C14_PickNearestInTolerance ==
    pick_op.op = "PickAt" =>
        /\ pk_result.id = <<>> <=> PickableSet = {}
        /\ pk_result.id = <<>> => pk_result.xyz = <<>>
        /\ pk_result.id # <<>> =>
              /\ pk_result.id[1] + 1 \in PickableSet
              /\ pk_result.xyz = pk_p[pk_result.id[1] + 1]
              /\ \A j \in PickableSet :
                    ~CloserToRay(ClickRay(pick_op.posxy), PickedCloud[j],
                                 PickedCloud[pk_result.id[1] + 1])
        /\ \A k \in 1..Len(pk_p) :
              ( /\ pick_op.posxy = <<ScreenDims[1] \div 2, ScreenDims[2] \div 2>>
                /\ OnForwardAxis(PickedCloud[k])
                /\ PickableSet = {k} )
              => pk_result = [id |-> <<k - 1>>, xyz |-> pk_p[k]]

\* A pick through a turned camera, off the screen centre or not, with two
\* pickable points of different angular distance and a point that is not
\* pickable; the point returned is not the first of the cloud.
C14_Witness ==
    /\ pick_op.op = "PickAt"
    /\ pick_op.cam_m.R # Identity3
    /\ Cardinality(PickableSet) = 2
    /\ Len(pk_p) = 3
    /\ \E j, k \in PickableSet :
          CloserToRay(ClickRay(pick_op.posxy), PickedCloud[j], PickedCloud[k])
    /\ pk_result.id # <<>>
    /\ pk_result.id[1] > 0

(***************************************************************************)
(* Claims about the object registry.                                       *)
(***************************************************************************)
\* C13: a call of AddObjects that returns keeps every binding scene_objects
\* held before it and adds exactly one new key, whether or not the requested
\* name was registered already.
C13_AddObjectsNeverOverwrites ==
    [][(last_op'.n = last_op.n + 1 /\ last_op'.op = "AddObjects" /\ ~last_op'.raised) =>
          /\ \A k \in DOMAIN scene_objects :
                k \in DOMAIN scene_objects' /\ scene_objects'[k] = scene_objects[k]
          /\ Cardinality(DOMAIN scene_objects' \ DOMAIN scene_objects) = 1]_vars

\* AddObjects("3d_cursor", ...) has returned twice, with objects that are not
\* spheres: both are registered, under fresh names, next to the cursor.
C13_Witness ==
    /\ last_op.op = "AddObjects" /\ ~last_op.raised /\ last_op.n = 2
    /\ last_op.name = "3d_cursor"
    /\ {"3d_cursor", "3d_cursor.001", "3d_cursor.002"} \subseteq DOMAIN scene_objects
    /\ scene_objects["3d_cursor"].type = "Sphere"
    /\ scene_objects["3d_cursor.001"].type # "Sphere"
    /\ scene_objects["3d_cursor.002"].type # "Sphere"

\* The object types AddObjects has a branch for.
KnownTypes == {"volume", "swc", "AxesActor", "Sphere", "OrientationMarker", "Background", "Camera"}

\* The scene_conf of the latest AppendToScene call, told by its first object.
SceneConfOf(name) == CHOOSE sc \in SceneConfInputs : sc.objects[1].name = name

\* C16: AppendToScene lets no exception escape, registers nothing for an
\* object of unknown type, and registers every other object of the
\* configuration, those after the unknown one included.
C16_UnknownTypeSkipped ==
    [][(last_op'.n = last_op.n + 1 /\ last_op'.op = "AppendToScene") =>
          LET objs == SceneConfOf(last_op'.name).objects
              known == {j \in 1..Len(objs) : objs[j].conf.type \in KnownTypes}
          IN  /\ ~last_op'.raised
              /\ \A k \in DOMAIN scene_objects :
                    k \in DOMAIN scene_objects' /\ scene_objects'[k] = scene_objects[k]
              /\ Cardinality(DOMAIN scene_objects' \ DOMAIN scene_objects) = Cardinality(known)
              /\ \A j \in known : \E k \in DOMAIN scene_objects' \ DOMAIN scene_objects :
                    scene_objects'[k].type = objs[j].conf.type]_vars

\* C17: RemoveObjects(name) returns; for a registered name the name is no
\* key of scene_objects afterwards, no renderer holds its handle and the
\* selection does not name it, with every other entry kept; for an
\* unregistered name the registry, the renderers and the selection are
\* unchanged.
C17_RemoveDetachesAndDeletes ==
    [][(last_op'.n = last_op.n + 1 /\ last_op'.op = "RemoveObjects") =>
          /\ ~last_op'.raised
          /\ IF last_op'.name \in DOMAIN scene_objects
             THEN /\ DOMAIN scene_objects' = DOMAIN scene_objects \ {last_op'.name}
                  /\ \A k \in DOMAIN scene_objects' : scene_objects'[k] = scene_objects[k]
                  /\ \A a \in renderer_actors' : a.name # last_op'.name
                  /\ \A i \in 1..Len(selected_objects') : selected_objects'[i] # last_op'.name
             ELSE /\ scene_objects' = scene_objects
                  /\ renderer_actors' = renderer_actors
                  /\ selected_objects' = selected_objects]_vars

\* C20: every step leaves each point of the cloud at its index with its
\* coordinates, new points coming after them, and a step of the picker
\* (construction and PickAt) leaves the cloud as it is.
C20_CloudOnlyGrows ==
    [][/\ Len(ps_points') >= Len(ps_points)
       /\ SubSeq(ps_points', 1, Len(ps_points)) = ps_points
       /\ (pk_p' # pk_p \/ pk_result' # pk_result \/ pick_op' # pick_op) =>
              ps_points' = ps_points
       /\ ps_points' # ps_points => last_op'.op \in {"AddObjects", "AppendToScene"}]_vars

\* The cloud has grown twice, by different points, with a pick in between
\* that selected a point: the picker still holds the cloud of its time.
C20_Witness ==
    /\ Len(pk_p) > 0
    /\ Len(ps_points) > Len(pk_p)
    /\ SubSeq(ps_points, 1, Len(pk_p)) = pk_p
    /\ Range(ps_points) # Range(pk_p)
    /\ pk_result.id # <<>>
    /\ last_op.n = 2

\* C27: AddObjects is all-or-nothing: a call that raises leaves
\* scene_objects, selected_objects and the point cloud as they were.
C27_AddObjectsAllOrNothing ==
    [][(/\ last_op'.n = last_op.n + 1
        /\ last_op'.op = "AddObjects"
        /\ last_op'.raised) =>
           /\ scene_objects' = scene_objects
           /\ selected_objects' = selected_objects
           /\ ps_points' = ps_points]_vars

\* C23: when AppendToScene is given a configuration whose object names a
\* property of the same configuration, the call returns and the object is
\* registered with that property, whichever section the dict holds first.
C23_PropertiesBeforeObjects ==
    [][(last_op'.n = last_op.n + 1 /\ last_op'.op = "AppendToScene") =>
          LET sc == SceneConfOf(last_op'.name)
              own == {sc.object_properties[i].name : i \in 1..Len(sc.object_properties)}
          IN  \A j \in 1..Len(sc.objects) :
                  (sc.objects[j].conf.type = "volume" /\ sc.objects[j].conf.property.name \in own) =>
                      /\ ~last_op'.raised
                      /\ own \subseteq DOMAIN object_properties'
                      /\ \E k \in DOMAIN scene_objects' \ DOMAIN scene_objects :
                            /\ scene_objects'[k].type = "volume"
                            /\ scene_objects'[k].prop =
                                   object_properties'[sc.objects[j].conf.property.name]]_vars

\* AppendToScene has returned for a configuration that holds "objects" before
\* "object_properties": the volume is registered with the property of its
\* configuration, not with the default one.
C23_Witness ==
    /\ last_op.op = "AppendToScene" /\ last_op.name = "brain" /\ last_op.s = 1
    /\ ~last_op.raised
    /\ "brain" \in DOMAIN scene_objects
    /\ scene_objects["brain"].prop = object_properties["volume.001"]
    /\ object_properties["volume.001"] # object_properties["volume"]
    /\ selected_objects = <<"brain">>

(***************************************************************************)
(* Claims about the timer-driven animation.                                *)
(***************************************************************************)
Min(a, b) == IF a <= b THEN a ELSE b

\* C18: once an animation has seen a TimerEvent, the rotation it has applied
\* is degree_per_sec * (min(t_last, time_start + duration) - time_start),
\* with t_last the time of the latest TimerEvent, whatever the number and
\* the spacing of the events; before the first one it is 0.
C18_RotationIsElapsedTimesRate ==
    \A a \in 1..Len(anims) :
        IF anims[a].n_ticks = 0 THEN anims[a].rotation = 0
        ELSE anims[a].rotation =
                 anims[a].degree_per_sec *
                     (Min(anims[a].t_last_tick, anims[a].time_start + anims[a].duration)
                          - anims[a].time_start)

\* An animation has seen three TimerEvents, the latest after the end of its
\* duration and the one before strictly inside it, next to a second
\* animation that started later.
C18_Witness ==
    /\ Len(anims) = 2
    /\ anims[1].n_ticks = 3
    /\ anims[1].t_last_tick > anims[1].time_start + anims[1].duration
    /\ anims[1].rotation = anims[1].degree_per_sec * anims[1].duration
    /\ anims[1].degree_per_sec > 1
    /\ anims[2].time_start > anims[1].time_start
    /\ anims[2].n_ticks > 0
    /\ anims[2].rotation > 0
    /\ anims[2].rotation < anims[2].degree_per_sec * anims[2].duration

\* C19: once stop() has returned for an animation, the rotation it has
\* applied stays what it was then.
C19_StoppedAnimationRotatesNoMore ==
    \A a \in 1..Len(anims) :
        anims[a].stopped => anims[a].rotation = anims[a].rotation_at_stop

(***************************************************************************)
(* Claims about the interactor style.                                      *)
(***************************************************************************)
\* The modifier keys k held, and the modifier letters of u, as sets of
\* letters.
KeysHeld(k) == {x \in {"C", "A", "S"} : (x = "C" /\ k.C) \/ (x = "A" /\ k.A) \/ (x = "S" /\ k.S)}

LettersOf(u) == {x \in {"C", "A", "S"} : \E i \in 1..Len(u) : u[i] = x \/ UpperChar(u[i]) = x}

\* C24: is_kbd_modifier(u) is true exactly when the set of modifier keys held
\* is the set of the letters C, A, S that occur in u in either case.
C24_ModifierTestIsExact ==
    kbd_test.called => (kbd_test.result <=> KeysHeld(kbd_test.k) = LettersOf(kbd_test.u))

\* C28: the Up event a left-button release forwards matches the Down event
\* the press before it forwarded, and OnMiddleButtonUp is forwarded only
\* after a press that forwarded OnMiddleButtonDown.
C28_ReleaseMatchesPress ==
    last_mouse = "release" =>
        /\ press_fwd = "OnLeftButtonDown" => release_fwd = "OnLeftButtonUp"
        /\ press_fwd = "OnMiddleButtonDown" => release_fwd = "OnMiddleButtonUp"
        /\ release_fwd = "OnMiddleButtonUp" => press_fwd = "OnMiddleButtonDown"

\* C25: a press of '+' or '-' leaves the transfer-function curves of every
\* volume object other than selected_objects[0] as they were.
C25_KeyRescalesActiveObjectOnly ==
    [][(last_op'.n = last_op.n + 1 /\ last_op'.op = "OnChar") =>
          \A k \in DOMAIN scene_objects :
              (scene_objects[k].type = "volume" /\ k # selected_objects[1]) =>
                  /\ props'[scene_objects'[k].prop].otf = props[scene_objects[k].prop].otf
                  /\ props'[scene_objects'[k].prop].ctf = props[scene_objects[k].prop].ctf]_vars

CurveIsScaled(curve, authored, s) ==
    \A i \in 1..Len(curve) :
        /\ i <= Len(authored)
        /\ curve[i].x = s * authored[i].x
        /\ curve[i].y = authored[i].y

\* C4: after any sequence of rescale operations ending with factor kn, every
\* control point of the current curve is at kn times its authored position,
\* with its other fields as at creation.
C4_RescaleFromAuthored ==
    (last_op.op = "SetColorScale" /\ ~last_op.raised) =>
        /\ CurveIsScaled(props[last_op.id].otf, BaselineConf(props, last_op.id).otf.pts, last_op.s)
        /\ CurveIsScaled(props[last_op.id].ctf, BaselineConf(props, last_op.id).ctf.pts, last_op.s)

\* C5: after SetColorScale(prop, k), GetColorScale(prop) is k for both curves,
\* whenever the authored last positions are nonzero.
C5_GetScaleRecoversFactor ==
    (last_op.op = "SetColorScale" /\ ~last_op.raised) =>
        LET g == GetColorScale(props, last_op.id)
        IN  (g.otf_den # 0 /\ g.ctf_den # 0) =>
                /\ g.otf_num = last_op.s * g.otf_den
                /\ g.ctf_num = last_op.s * g.ctf_den

\* C6: every property created with copy_from can be rescaled: its authored
\* control points are resolved through its back-reference, so
\* ModifyObjectProperty, SetColorScale and GetColorScale do not fail on it.
C6_DerivedAlwaysRescalable ==
    \A id \in 1..Len(props) :
        props[id].ref_prop # 0 =>
            /\ ~GetColorScaleRaises(props, id)
            /\ \A s \in ScaleInputs : ~SetColorScale(props, id, s, s).raised

\* C7: importing one volume with colorscale=2.0 gives that volume a property
\* whose opacity and colour curves end at twice the authored last position,
\* and leaves the curves of the default 'volume' property as they were (as
\* DefaultSceneConfig set them, when the import is the first operation).
C7_ImportWithColorscaleTwo ==
    (last_op.op = "EasyObjectImporter" /\ last_op.s = 2) =>
        /\ ~last_op.raised
        /\ last_op.name \in DOMAIN scene_objects
        /\ scene_objects[last_op.name].prop = last_op.id
        /\ last_op.id = Len(props)
        /\ props[last_op.id].ref_prop = 1
        /\ Last(props[last_op.id].otf).x = 2 * Last(DefaultVolumeConf.otf.pts).x
        /\ Last(props[last_op.id].ctf).x = 2 * Last(DefaultVolumeConf.ctf.pts).x
        /\ props[1].otf = last_op.pre[1].otf
        /\ props[1].ctf = last_op.pre[1].ctf
        /\ last_op.n = 1 => /\ props[1] = DefaultScene.props[1]
                            /\ last_op.name = "volume"

\* The default scene has just imported one volume with colorscale=2.0.
C7_Witness ==
    /\ last_op.op = "EasyObjectImporter"
    /\ last_op.s = 2
    /\ last_op.n = 1
    /\ "volume" \in DOMAIN scene_objects
    /\ Len(props) = 2

(***************************************************************************)
(* Specifications.                                                         *)
(***************************************************************************)
InitSpecSWC == InitSWC /\ IdleMerge /\ IdleScene /\ IdleNames /\ IdlePick /\ IdleTimer /\ IdleStyle
    /\ IdleAlias /\ IdleCam

SpecSWC == InitSpecSWC /\ [][NextSWC]_vars

InitSpecMerge == InitMerge /\ IdleSWC /\ IdleScene /\ IdleNames /\ IdlePick /\ IdleTimer /\ IdleStyle
    /\ IdleAlias /\ IdleCam

SpecMerge == InitSpecMerge /\ [][NextMerge]_vars

InitSpecNames == InitNames /\ IdleSWC /\ IdleMerge /\ IdleScene /\ IdlePick /\ IdleTimer /\ IdleStyle
    /\ IdleAlias /\ IdleCam

\* The function runs on: its loop is not suspended for ever.
SpecNames == InitSpecNames /\ [][NextNames]_vars /\ WF_vars(NextNames)

InitSpecPick == InitPick /\ IdleSWC /\ IdleMerge /\ IdleScene /\ IdleNames /\ IdleTimer /\ IdleStyle
    /\ IdleAlias /\ IdleCam

SpecPick == InitSpecPick /\ [][NextPick]_vars

InitSpecObjects == InitScene /\ InitPick /\ IdleSWC /\ IdleMerge /\ IdleNames /\ IdleTimer /\ IdleStyle
    /\ IdleAlias /\ IdleCam

SpecObjects == InitSpecObjects /\ [][NextObjects]_vars

InitSpecTimer == IdleTimer /\ IdleSWC /\ IdleMerge /\ IdleScene /\ IdleNames /\ IdlePick /\ IdleStyle
    /\ IdleAlias /\ IdleCam

SpecTimer == InitSpecTimer /\ [][NextTimer]_vars

InitSpecStyle ==
    IdleStyle /\ IdleSWC /\ IdleMerge /\ IdleScene /\ IdleNames /\ IdlePick /\ IdleTimer
    /\ IdleAlias /\ IdleCam

SpecStyle == InitSpecStyle /\ [][NextStyle]_vars

InitSpecKeys ==
    InitScene /\ IdleSWC /\ IdleMerge /\ IdleNames /\ IdlePick /\ IdleTimer /\ IdleStyle
    /\ IdleAlias /\ IdleCam

SpecKeys == InitSpecKeys /\ [][NextKeys]_vars

InitSpecAlias ==
    InitAlias /\ IdleSWC /\ IdleMerge /\ IdleScene /\ IdleNames /\ IdlePick /\ IdleTimer
    /\ IdleStyle /\ IdleCam

SpecAlias == InitSpecAlias /\ [][NextAlias]_vars

InitSpecCam ==
    InitCam /\ IdleSWC /\ IdleMerge /\ IdleScene /\ IdleNames /\ IdlePick /\ IdleTimer
    /\ IdleStyle /\ IdleAlias

SpecCam == InitSpecCam /\ [][NextCam]_vars

Spec == Init /\ [][Next]_vars

====
